---- MODULE Spec2Model ----
(***************************************************************************)
(* Abbreviation tracking of the Emmet CodeMirror plugin bundled with the   *)
(* playground (src/unnamed/part_004): AbbreviationTrackingController, the  *)
(* shared CMEditorProxy, the commands that drive them, and the parts of    *)
(* the abbreviation tokenizers/parsers the controller calls.               *)
(*                                                                         *)
(* Editor text is a sequence of one-character strings.  Positions are the  *)
(* 0-based character offsets of the source; a range <<from, to>> covers    *)
(* the characters with offsets from .. to-1.                               *)
(***************************************************************************)
EXTENDS Integers, Sequences, FiniteSets, TLC

\* Longest editor text explored.
MaxLen == 2
\* Longest editor text explored when two editors are driven together.
MaxLenMulti == 1

\* Editor instances (CodeMirror objects); each gets its own id from getInternalState.
Editors == {"e1", "e2"}
\* Characters a user types: a name character and a closing bracket.
Alphabet == {"a", ")"}
\* The letters typed in the modelled editors, standing for [a-zA-Z].
Letters == {"a", "p"}
\* Document syntaxes of the modelled editors.
Syntaxes == {"html", "css"}

\* Absent map entry / null reference.
None == [type |-> "none"]
\* `undefined` caret position (no entry in the lastPos map).
NoPos == -1

Min(a, b) == IF a < b THEN a ELSE b
Max(a, b) == IF a > b THEN a ELSE b

\* String.prototype.slice(from, to): a negative index counts from the end,
\* and both are clamped to 0..length.
Slice(s, from, to) ==
    LET f == IF from < 0 THEN Max(Len(s) + from, 0) ELSE Min(from, Len(s))
        t == IF to < 0 THEN Max(Len(s) + to, 0) ELSE Min(to, Len(s))
    IN  IF f >= t THEN <<>> ELSE SubSeq(s, f + 1, t)

\* Character at 0-based index i, or "" for `undefined`.
CharAt(s, i) == IF i >= 0 /\ i < Len(s) THEN s[i + 1] ELSE ""

pairs == [c \in {"{", "[", "("} |-> CASE c = "{" -> "}" [] c = "[" -> "]" [] c = "(" -> ")"]
pairsEnd == {pairs[c] : c \in DOMAIN pairs}

isSpace(c) == c \in {" ", "\t", "\n", "\r"}
HasNewline(s) == \E i \in 1..Len(s) : s[i] \in {"\n", "\r"}

(***************************************************************************)
(* Markup tokenizer, restricted to the character classes of the modelled   *)
(* editors: a run of name characters is one Literal ("L"), a run of spaces *)
(* one WhiteSpace ("W"), "(" and ")" are group brackets ("O", "C"), ">"    *)
(* and "+" the child and sibling operators (">", "+"), "/" the close       *)
(* operator; "<" is a character no token starts with ("X").                *)
(***************************************************************************)
RECURSIVE tokenize(_)
tokenize(s) ==
    IF s = <<>> THEN <<>>
    ELSE LET c == Head(s)
             rest == tokenize(Tail(s))
             t == IF isSpace(c) THEN "W"
                  ELSE IF c = "(" THEN "O"
                  ELSE IF c = ")" THEN "C"
                  ELSE IF c \in {">", "+", "/"} THEN c
                  ELSE IF c = "<" THEN "X"
                  ELSE "L"
         IN  IF t \in {"L", "W"} /\ rest # <<>> /\ Head(rest) = t
             THEN rest
             ELSE <<t>> \o rest

\* statements(): position after the longest run of elements and groups
\* starting at token p (1-based); an element is a name with an optional
\* close operator, a group takes `(`, a nested run, and then whatever single
\* token follows (next(scanner)), even past the end; a child or sibling
\* operator may follow either.
RECURSIVE statements(_, _)
statements(tk, p) ==
    LET afterNode(q) == IF q <= Len(tk) /\ tk[q] \in {">", "+"}
                        THEN statements(tk, q + 1) ELSE statements(tk, q)
    IN  IF p > Len(tk) THEN p
        ELSE IF tk[p] = "L"
             THEN afterNode(IF p + 1 <= Len(tk) /\ tk[p + 1] = "/" THEN p + 2 ELSE p + 1)
        ELSE IF tk[p] = "O" THEN afterNode(statements(tk, p + 1) + 1)
        ELSE p

\* abbreviation(): throws 'Unexpected character' iff tokens remain.
abbreviation(tk) == statements(tk, 1) > Len(tk)

\* parseAbbreviation(abbr): TRUE iff tokenize + abbreviation + convert
\* return; tokenize throws at a character no token starts with.
parseAbbreviation(abbr) == "X" \notin {tokenize(abbr)[i] : i \in 1..Len(tokenize(abbr))}
                           /\ abbreviation(tokenize(abbr))

\* Number of top-level nodes of the converted abbreviation (groups are
\* flattened by convertGroup, and no child operator is in Alphabet).
NodeCount(tk) == Cardinality({i \in 1..Len(tk) : tk[i] = "L"})

\* isSimpleMarkupAbbreviation: at most one node, whose name starts with a letter.
isSimpleMarkupAbbreviation(abbr) == NodeCount(tokenize(abbr)) <= 1

(***************************************************************************)
(* Stylesheet tokenizer and parser, restricted to the same classes.        *)
(***************************************************************************)
\* tokenize$1: FALSE iff it throws 'Unexpected bracket' (a `)` with no open `(`).
RECURSIVE bracketsBalanced(_, _)
bracketsBalanced(s, brackets) ==
    IF s = <<>> THEN TRUE
    ELSE IF Head(s) = "(" THEN bracketsBalanced(Tail(s), brackets + 1)
    ELSE IF Head(s) = ")" THEN brackets - 1 >= 0 /\ bracketsBalanced(Tail(s), brackets - 1)
    ELSE bracketsBalanced(Tail(s), brackets)

\* consumeValue / consumeArguments: position after the value fragment, the
\* number of value tokens taken, and whether 'Unexpected token' was thrown.
RECURSIVE consumeValue(_, _, _, _)
RECURSIVE consumeArguments(_, _)
consumeValue(tk, p, inArgument, cnt) ==
    IF p > Len(tk) THEN [pos |-> p, cnt |-> cnt, err |-> FALSE]
    ELSE IF tk[p] = "L"
         THEN LET args == IF p + 1 <= Len(tk) /\ tk[p + 1] = "O"
                          THEN consumeArguments(tk, p + 2)
                          ELSE [pos |-> p + 1, err |-> FALSE]
              IN  IF args.err THEN [pos |-> args.pos, cnt |-> cnt, err |-> TRUE]
                  ELSE consumeValue(tk, args.pos, inArgument, cnt + 1)
    ELSE IF inArgument /\ tk[p] = "W" THEN consumeValue(tk, p + 1, inArgument, cnt)
    ELSE [pos |-> p, cnt |-> cnt, err |-> FALSE]
consumeArguments(tk, q) ==
    IF q > Len(tk) THEN [pos |-> q, err |-> FALSE]
    ELSE IF tk[q] = "C" THEN [pos |-> q + 1, err |-> FALSE]
    ELSE LET v == consumeValue(tk, q, TRUE, 0)
         IN  IF v.err THEN [pos |-> v.pos, err |-> TRUE]
             ELSE IF v.cnt > 0 THEN consumeArguments(tk, v.pos)
             ELSE IF v.pos <= Len(tk) /\ tk[v.pos] = "W" THEN consumeArguments(tk, v.pos + 1)
             ELSE [pos |-> v.pos, err |-> TRUE]

\* consumeProperty at token p: a name (a Literal not followed by a bracket)
\* and its value fragments; `ok` iff a property was produced.
RECURSIVE consumeFragments(_, _, _)
consumeFragments(tk, p, cnt) ==
    LET v == consumeValue(tk, p, FALSE, 0)
    IN  IF v.err THEN [pos |-> v.pos, cnt |-> cnt, err |-> TRUE]
        ELSE IF v.cnt > 0 THEN consumeFragments(tk, v.pos, cnt + 1)
        ELSE [pos |-> v.pos, cnt |-> cnt, err |-> FALSE]
consumeProperty(tk, p) ==
    LET isFunctionStart == p + 1 <= Len(tk) /\ tk[p] = "L" /\ tk[p + 1] \in {"O", "C"}
        named == tk[p] = "L" /\ ~isFunctionStart
        f == consumeFragments(tk, IF named THEN p + 1 ELSE p, 0)
    IN  [pos |-> f.pos, ok |-> named \/ f.cnt > 0, err |-> f.err]

\* parser(): TRUE iff every token is consumed as a property.
RECURSIVE parser(_, _)
parser(tk, p) ==
    IF p > Len(tk) THEN TRUE
    ELSE LET r == consumeProperty(tk, p)
         IN  ~r.err /\ r.ok /\ parser(tk, r.pos)

\* parse(abbr): TRUE iff tokenize$1 + parser return without throwing.
parse(abbr) == bracketsBalanced(abbr, 0) /\ parser(tokenize(abbr), 1)

(***************************************************************************)
(* Configs and previews.                                                   *)
(***************************************************************************)
Section == "@@section"
Global == "@@global"

\* getCSSContext on a document of Alphabet characters: scan$1 reports one
\* propertyName token from the first to the last non-space character, and
\* `current` is that token when pos is inside (start, end].
cssCurrent(content, pos) ==
    LET nonSpace == {i \in 1..Len(content) : ~isSpace(content[i])}
    IN  nonSpace # {} /\
        LET start == (CHOOSE i \in nonSpace : \A j \in nonSpace : i <= j) - 1
            end == CHOOSE i \in nonSpace : \A j \in nonSpace : i >= j
        IN  start < pos /\ pos <= end

\* getStylesheetAbbreviationContext: no ancestors exist, so a current
\* propertyName token gives the section scope, anything else the global one.
getStylesheetAbbreviationContext(content, pos) ==
    IF cssCurrent(content, pos) THEN Section ELSE Global

\* getActivationContext: None stands for `undefined`.  `handled` is the flag
\* of the field$3() closure the new config object holds in its options.
getActivationContext(syntax, content, pos) ==
    IF syntax = "css"
    THEN IF cssCurrent(content, pos)
         THEN [type |-> "stylesheet", context |-> getStylesheetAbbreviationContext(content, pos),
               handled |-> FALSE]
         ELSE None
    ELSE [type |-> "markup", context |-> "none", handled |-> FALSE]

\* editor.config(pos) (getOptions): type from the syntax, context from the position.
editorConfig(syntax, content, pos) ==
    IF syntax = "css"
    THEN [type |-> "stylesheet", context |-> getStylesheetAbbreviationContext(content, pos),
               handled |-> FALSE]
    ELSE [type |-> "markup", context |-> "none", handled |-> FALSE]

\* expandAbbreviation for the preview.  In section scope only raw snippets
\* (`@...`, `!`) are searched, so a lone name stays an unresolved property
\* and renders as `name: ;`; other results are rendered with a leading "<"
\* or "#" that no abbreviation of Alphabet starts with, and an abbreviation
\* without nodes renders as the empty string.
expandAbbreviation(abbr, config) ==
    IF config.type = "stylesheet"
    THEN IF tokenize(abbr) = <<"L">> /\ config.context = Section
         THEN abbr \o <<":", " ", ";">>
         ELSE <<"#">> \o abbr
    ELSE IF NodeCount(tokenize(abbr)) = 0 THEN <<>> ELSE <<"<">> \o abbr

\* /^:\s*;?$/ applied to a string.
RECURSIVE allSpaces(_)
allSpaces(s) == s = <<>> \/ (isSpace(Head(s)) /\ allSpaces(Tail(s)))
isEmptyProperty(rest) ==
    /\ rest # <<>>
    /\ Head(rest) = ":"
    /\ LET t == Tail(rest)
       IN  allSpaces(t) \/ (t # <<>> /\ t[Len(t)] = ";" /\ allSpaces(SubSeq(t, 1, Len(t) - 1)))

startsWith(s, prefix) == Len(prefix) <= Len(s) /\ SubSeq(s, 1, Len(prefix)) = prefix

(***************************************************************************)
(* State.                                                                  *)
(***************************************************************************)
VARIABLES
    text,          \* text[e]: content of editor e
    caret,         \* caret[e]: getCaret(e), 0..Len(text[e])
    syntax,        \* syntax[e]: docSyntax(e)
    queue,         \* CodeMirror events signalled and not yet delivered, oldest first
    trackers,      \* controller.trackers, by editor id
    cache,         \* controller.cache (undo-restore slot), by editor id
    lastPos,       \* controller.lastPos, by editor id
    marker,        \* proxy.marker: the text marker and the editor it lives in
    forcedMarker,  \* proxy.forcedMarker: the widget and the editor it lives in
    preview,       \* proxy.preview: the preview widget, its editor and content
    exc,           \* TRUE once an exception has propagated out of an event handler
    ev,            \* the event or command handled last, with the state it found
    history,       \* history[e]: the expansion an undo in editor e reverts, while it
                   \* is the last change of the document
    stylesheetSnippets, \* cache.stylesheetSnippets of the module-level `cache` of expand()
    handled,       \* handled[c]: the `handled` flag of the field$3() closure config object c holds
    firstOut,      \* firstOut[<<abbr, c>>]: what the first expand(abbr, c) returned
    call,          \* the library call made last: its arguments and what it returned
    scanner,       \* the Scanner in use: its string, start, pos and end
    bus_events     \* this._events of the playground's event bus, by event name

\* No library call made.
NoCall == [fn |-> "none"]

\* State of the editors, the controller and the proxy.
edvars == <<text, caret, syntax, queue, trackers, cache, lastPos, marker,
            forcedMarker, preview, exc, ev, history>>
\* Objects used directly: a Scanner and the event bus.
objvars == <<scanner, bus_events>>
\* State of the Emmet library functions called directly, and of those objects.
libvars == <<stylesheetSnippets, handled, firstOut, call, scanner, bus_events>>

vars == <<text, caret, syntax, queue, trackers, cache, lastPos, marker,
          forcedMarker, preview, exc, ev, history, stylesheetSnippets, handled, firstOut,
          call, scanner, bus_events>>

\* The controller, proxy and editors as one value, threaded through the
\* calls a handler makes; `out` collects the events those calls signal, `ret`
\* is the value the last call returned, `note` names a branch a call took.
Here == [text |-> text, caret |-> caret, trackers |-> trackers, cache |-> cache,
         lastPos |-> lastPos, marker |-> marker, forcedMarker |-> forcedMarker,
         preview |-> preview, exc |-> exc, out |-> <<>>, ret |-> None, note |-> "none"]

isJSX(syn) == syn \in {"jsx", "tsx"}
JSX_PREFIX == "<"

\* reJSXAbbrStart = /^[a-zA-Z.#\[\(]$/ on one character.
reJSXAbbrStart(c) == c \in Letters \cup {".", "#", "[", "("}
\* reWordBound = /^[\s>;"\']?[a-zA-Z.#!@\[\(]$/
reWordBound(prefix) ==
    LET startCh(c) == c \in Letters \cup {".", "#", "!", "@", "[", "("}
        bound(c) == isSpace(c) \/ c \in {">", ";", "\"", "'"}
    IN  \/ Len(prefix) = 1 /\ startCh(prefix[1])
        \/ Len(prefix) = 2 /\ bound(prefix[1]) /\ startCh(prefix[2])
\* reStylesheetWordBound = /^[\s;"\']?[a-zA-Z!@]$/
reStylesheetWordBound(prefix) ==
    LET startCh(c) == c \in Letters \cup {"!", "@"}
        bound(c) == isSpace(c) \/ c \in {";", "\"", "'"}
    IN  \/ Len(prefix) = 1 /\ startCh(prefix[1])
        \/ Len(prefix) = 2 /\ bound(prefix[1]) /\ startCh(prefix[2])

\* allowTracking: marking is on by default and both syntaxes are supported.
allowTracking(syn) == syn \in {"html", "css"} \/ isJSX(syn)

contains(tracker, pos) == pos >= tracker.range[1] /\ pos <= tracker.range[2]

(***************************************************************************)
(* CMEditorProxy: one instance serves every editor.                        *)
(***************************************************************************)
disposeMarker(S) == [S EXCEPT !.marker = None, !.forcedMarker = None]
hidePreview(S) == [S EXCEPT !.preview = None]
unmark(S) == hidePreview(disposeMarker(S))

mark(S, e, tracker) ==
    LET S1 == disposeMarker(S)
        S2 == [S1 EXCEPT !.marker = [type |-> "marker", ed |-> e]]
    IN  IF tracker.forced /\ S2.forcedMarker.type = "none"
        THEN [S2 EXCEPT !.forcedMarker = [type |-> "widget", ed |-> e]]
        ELSE S2

showPreview(S, e, tracker) ==
    LET isError == tracker.type = "error"
        content == IF isError THEN <<"!">>
                   ELSE IF tracker.forced \/ ~tracker.simple THEN tracker.preview
                   ELSE <<>>
    IN  IF content # <<>>
        THEN [S EXCEPT !.preview =
                 [type |-> "preview",
                  ed |-> IF S.preview.type = "none" THEN e ELSE S.preview.ed,
                  content |-> content, error |-> isError]]
        ELSE hidePreview(S)

\* A signalled CodeMirror event: `edit` says what the user did, `k` how many
\* characters it inserted or removed, `at` where the caret was before.
Event(kind, e, edit, k, at) == [kind |-> kind, e |-> e, edit |-> edit, k |-> k, at |-> at]

\* editor.replace('', from, to): CodeMirror clips the positions, moves the
\* cursor with the text and signals change, then cursorActivity if it moved.
replace(S, e, from, to) ==
    LET t == S.text[e]
        f == Min(Max(from, 0), Len(t))
        u == Min(Max(to, 0), Len(t))
        c == S.caret[e]
        c2 == IF c >= u THEN c - (u - f) ELSE IF c > f THEN f ELSE c
    IN  IF f >= u THEN S
        ELSE [S EXCEPT !.text[e] = Slice(t, 0, f) \o Slice(t, u, Len(t)),
                       !.caret[e] = c2,
                       !.out = @ \o <<Event("change", e, "cmd", u - f, c)>>
                                 \o (IF c2 # c THEN <<Event("cursor", e, "cmd", u - f, c)>>
                                     ELSE <<>>)]

(***************************************************************************)
(* AbbreviationTrackingController.                                         *)
(***************************************************************************)
updateRange(range, delta, lastP) ==
    IF delta < 0
    THEN IF lastP = range[1]
         THEN <<range[1] + delta, range[2] + delta>>
         ELSE IF range[1] < lastP /\ lastP <= range[2]
              THEN <<range[1], range[2] + delta>>
              ELSE range
    ELSE IF delta > 0 /\ range[1] <= lastP /\ lastP <= range[2]
         THEN <<range[1], range[2] + delta>>
         ELSE range

\* The while loop of isValidTracker: step back over closing brackets that end
\* the abbreviation.
RECURSIVE skipPairsEnd(_, _, _)
skipPairsEnd(abbr, start, targetPos) ==
    IF targetPos > start /\ CharAt(abbr, targetPos - start - 1) \in pairsEnd
    THEN skipPairsEnd(abbr, start, targetPos - 1)
    ELSE targetPos

\* isValidTracker with an exception for a closing bracket typed at the end
\* of the range.
isValidTracker_typedThrough(tracker, range, pos) ==
    IF tracker.type = "error"
    THEN IF range[2] = pos
         THEN CharAt(tracker.abbreviation, Len(tracker.abbreviation) - 1) \in pairsEnd
         ELSE skipPairsEnd(tracker.abbreviation, range[1], range[2]) # pos
    ELSE TRUE

isValidTracker(tracker, range, pos) ==
    IF tracker.type = "error"
    THEN IF range[2] = pos
         THEN FALSE
         ELSE skipPairsEnd(tracker.abbreviation, range[1], range[2]) # pos
    ELSE TRUE

\* createTracker without its catch block: the parser's exception propagates.
onParseError_rethrow(base) == [base EXCEPT !.type = "thrown"]

\* The catch block of createTracker: a failed parse or expansion becomes an
\* Error tracker.
onParseError(base) == [base EXCEPT !.type = "error"]

\* The second half of createTracker, for the abbreviation text `abbr` read
\* from the range: validation, the base record and the try block.
parseTracker(abbr, content, range, params) ==
    IF abbr = <<>> \/ HasNewline(abbr) THEN None
    ELSE IF (IF params.config.type = "stylesheet" THEN parse(abbr) ELSE parseAbbreviation(abbr))
         THEN [type |-> "abbreviation", abbreviation |-> abbr, range |-> range,
               config |-> params.config, forced |-> params.forced, offset |-> params.offset,
               lastPos |-> range[2], lastLength |-> Len(content),
               simple |-> params.config.type # "stylesheet" /\ isSimpleMarkupAbbreviation(abbr),
               preview |-> expandAbbreviation(abbr, params.config)]
         ELSE onParseError([type |-> "abbreviation", abbreviation |-> abbr, range |-> range,
                            config |-> params.config, forced |-> params.forced,
                            offset |-> params.offset, lastPos |-> range[2],
                            lastLength |-> Len(content), simple |-> FALSE, preview |-> <<>>])

\* createTracker(editor, range, params); None stands for `null`.  The text
\* is editor.substr(range[0], range[1]).slice(params.offset).
createTracker(content, range, params) ==
    IF range[1] >= range[2] THEN None
    ELSE parseTracker(Slice(Slice(content, range[1], range[2]), params.offset, Len(content)),
                      content, range, params)

\* A call that threw: the exception leaves the handler.
raise(S) == [S EXCEPT !.exc = TRUE]

\* The tail of startTracking: trackers.set for a tracker, trackers.delete for null.
setTracker(S, e, tracker) ==
    IF tracker.type = "thrown" THEN raise(S)
    ELSE [S EXCEPT !.trackers[e] = tracker, !.ret = tracker]

startTracking(S, e, start, pos, params) ==
    setTracker(S, e, createTracker(S.text[e], <<start, pos>>, params))

storeTracker(S, e, tracker) == [S EXCEPT !.cache[e] = tracker]

\* stopTracking after editor.unmark: removal of a forced abbreviation, then
\* the cache and trackers maps.
removeTracker(S1, e, tracker, force) ==
    [(IF force THEN [S1 EXCEPT !.cache[e] = None] ELSE storeTracker(S1, e, tracker))
        EXCEPT !.trackers[e] = None]

stopTracking(S, e, force, skipRemove) ==
    IF S.trackers[e].type = "none" THEN S
    ELSE removeTracker(IF S.trackers[e].forced /\ ~skipRemove
                       THEN replace(unmark(S), e, S.trackers[e].range[1], S.trackers[e].range[2])
                       ELSE unmark(S),
                       e, S.trackers[e], force)

restoreTracker(S, e, pos) ==
    IF /\ S.cache[e].type # "none"
       /\ S.cache[e].range[1] <= pos
       /\ S.cache[e].range[2] >= pos
    THEN IF Slice(S.text[e], S.cache[e].range[1] + S.cache[e].offset, S.cache[e].range[2])
               = S.cache[e].abbreviation
         THEN [S EXCEPT !.cache[e] = None, !.trackers[e] = S.cache[e], !.ret = S.cache[e]]
         ELSE [S EXCEPT !.cache[e] = None, !.ret = None]
    ELSE [S EXCEPT !.ret = None]

\* typingAbbreviation after startTracking returned: the section-context check.
checkSection(S1, e, config) ==
    IF /\ ~S1.exc
       /\ S1.ret.type = "abbreviation"
       /\ config.context = Section
       /\ startsWith(S1.ret.preview, S1.ret.abbreviation)
       /\ isEmptyProperty(Slice(S1.ret.preview, Len(S1.ret.abbreviation), Len(S1.ret.preview)))
    THEN [stopTracking(S1, e, FALSE, FALSE) EXCEPT !.ret = None, !.note = "degenerate"]
    ELSE S1

\* typingAbbreviation once the prefix, the start and the paired end are known.
activate(S, e, pos, prefix, start, end, offset, config) ==
    IF start < 0 \/ config.type = "none" THEN [S EXCEPT !.ret = None]
    ELSE IF config.type = "stylesheet" /\ ~reStylesheetWordBound(prefix)
         THEN [S EXCEPT !.ret = None]
    ELSE checkSection(startTracking(S, e, start, end,
                                    [offset |-> offset, config |-> config, forced |-> FALSE]),
                      e, config)

\* The start of a JSX abbreviation: prefix `<` and a start character.
jsxStart(prefix) == Len(prefix) = 2 /\ prefix[1] = JSX_PREFIX /\ reJSXAbbrStart(prefix[2])

\* `start` of typingAbbreviation, -1 when the prefix starts no abbreviation.
abbrStart(syn, prefix, pos) ==
    IF isJSX(syn) THEN (IF jsxStart(prefix) THEN pos - 2 ELSE -1)
    ELSE IF reWordBound(prefix) THEN pos - 1 ELSE -1

\* `end` of typingAbbreviation: one further when the typed bracket is paired.
abbrEnd(content, prefix, pos) ==
    IF /\ CharAt(prefix, Len(prefix) - 1) \in DOMAIN pairs
       /\ Slice(content, pos, pos + 1) = <<pairs[CharAt(prefix, Len(prefix) - 1)]>>
    THEN pos + 1 ELSE pos

typingAbbreviation(S, e, pos) ==
    activate(S, e, pos,
             Slice(S.text[e], Max(0, pos - 2), pos),
             abbrStart(syntax[e], Slice(S.text[e], Max(0, pos - 2), pos), pos),
             abbrEnd(S.text[e], Slice(S.text[e], Max(0, pos - 2), pos), pos),
             IF isJSX(syntax[e]) /\ jsxStart(Slice(S.text[e], Max(0, pos - 2), pos)) THEN 1 ELSE 0,
             getActivationContext(syntax[e], S.text[e], pos))

\* handleChange from the edge case of the empty forced abbreviation on, with
\* the updated range and the tracker created from it.
updateTracker(S1, e, pos, tracker, range, nextTracker) ==
    IF range[1] = range[2] /\ tracker.forced
    THEN [S1 EXCEPT !.trackers[e].abbreviation = <<>>,
                    !.ret = [tracker EXCEPT !.abbreviation = <<>>]]
    ELSE IF nextTracker.type = "thrown" THEN raise(S1)
    ELSE IF \/ nextTracker.type = "none"
            \/ (~tracker.forced /\ ~isValidTracker(nextTracker, range, pos))
         THEN stopTracking(S1, e, FALSE, FALSE)
    ELSE mark([S1 EXCEPT !.trackers[e] = [nextTracker EXCEPT !.lastPos = pos],
                         !.ret = [nextTracker EXCEPT !.lastPos = pos]],
              e, nextTracker)

\* handleChange with an active tracker whose lastPos is inside its range.
reparse(S1, e, pos, tracker, range) ==
    updateTracker(S1, e, pos, tracker, range, createTracker(S1.text[e], range, tracker))

\* handleChange that looks for a typed abbreviation wherever the caret was
\* before.
changed_anyCaret(S1, e, pos, tracker, editorLastPos) ==
    IF tracker.type = "none"
    THEN IF allowTracking(syntax[e]) THEN typingAbbreviation(S1, e, pos) ELSE S1
    ELSE IF tracker.lastPos < tracker.range[1] \/ tracker.lastPos > tracker.range[2]
         THEN stopTracking(S1, e, FALSE, FALSE)
    ELSE reparse(S1, e, pos, tracker,
                 updateRange(tracker.range, Len(S1.text[e]) - tracker.lastLength,
                             tracker.lastPos))

\* handleChange after setLastPos, with the tracker and last position it read.
changed(S1, e, pos, tracker, editorLastPos) ==
    IF tracker.type = "none"
    THEN IF editorLastPos # NoPos /\ editorLastPos = pos - 1 /\ allowTracking(syntax[e])
         THEN typingAbbreviation(S1, e, pos)
         ELSE S1
    ELSE IF tracker.lastPos < tracker.range[1] \/ tracker.lastPos > tracker.range[2]
         THEN stopTracking(S1, e, FALSE, FALSE)
    ELSE reparse(S1, e, pos, tracker,
                 updateRange(tracker.range, Len(S1.text[e]) - tracker.lastLength,
                             tracker.lastPos))

handleChange(S, e, pos) ==
    changed([S EXCEPT !.lastPos[e] = pos, !.ret = None], e, pos, S.trackers[e], S.lastPos[e])

\* handleSelectionChange with the tracker found or restored.
touch(S2, e, pos) ==
    IF S2.trackers[e].type # "none"
    THEN [S2 EXCEPT !.trackers[e].lastPos = pos,
                    !.ret = [S2.trackers[e] EXCEPT !.lastPos = pos]]
    ELSE S2

\* handleSelectionChange after setLastPos.
selected(S1, e, pos) ==
    touch(IF S1.trackers[e].type # "none" THEN S1 ELSE restoreTracker(S1, e, pos), e, pos)

\* handleSelectionChange that also stops tracking when the caret has left
\* the tracked range.
handleSelectionChange_stopOutside(S, e, pos) ==
    IF S.trackers[e].type # "none" /\ ~contains(S.trackers[e], pos)
    THEN stopTracking([S EXCEPT !.lastPos[e] = pos, !.ret = None], e, FALSE, FALSE)
    ELSE selected([S EXCEPT !.lastPos[e] = pos, !.ret = None], e, pos)

handleSelectionChange(S, e, pos) ==
    selected([S EXCEPT !.lastPos[e] = pos, !.ret = None], e, pos)

(***************************************************************************)
(* Events and commands.  A user edit changes the document and signals      *)
(* `change`, then `cursorActivity`; both are delivered before anything     *)
(* else happens (CodeMirror fires them when the operation ends).           *)
(***************************************************************************)
\* ev after a user input, before its events are handled.
Idle(e) == [op |-> "input", e |-> e, edit |-> "none", k |-> 0, at |-> 0, pos |-> 0,
            pre |-> None, preText |-> <<>>, note |-> "none", prev |-> "none"]
\* ev after a handler ran: the event it handled, the caret it read, the
\* tracker it found (pre), the text it found when a command is involved
\* (preText), the branch it took (note) and the one the handler before it
\* took (prev).
Handled(op, e, event, pos, S) ==
    [op |-> op, e |-> e, edit |-> event.edit, k |-> event.k, at |-> event.at, pos |-> pos,
     pre |-> trackers[e],
     preText |-> IF op = "reset" \/ event.edit = "cmd" THEN text[e] ELSE <<>>,
     note |-> S.note, prev |-> ev.note]
NoEvent == Event("none", "e1", "none", 0, 0)

\* Write back what a handler left behind, queue the events it signalled and
\* record what it handled; `hist` is the undo history it leaves.
CommitWith(S, rest, op, e, event, pos, hist) ==
    /\ text' = S.text
    /\ caret' = S.caret
    /\ trackers' = S.trackers
    /\ cache' = S.cache
    /\ lastPos' = S.lastPos
    /\ marker' = S.marker
    /\ forcedMarker' = S.forcedMarker
    /\ preview' = S.preview
    /\ exc' = S.exc
    /\ queue' = rest \o S.out
    /\ ev' = Handled(op, e, event, pos, S)
    /\ history' = hist
    /\ UNCHANGED syntax
    /\ UNCHANGED libvars

\* A handler that is no expansion: a change it made to a document becomes
\* the last change of that document.
Commit(S, rest, op, e, event, pos) ==
    CommitWith(S, rest, op, e, event, pos,
               [d \in Editors |-> IF S.text[d] = text[d] THEN history[d] ELSE None])

UserEdit(e, newText, newCaret, events) ==
    /\ queue = <<>>
    /\ text' = [text EXCEPT ![e] = newText]
    /\ caret' = [caret EXCEPT ![e] = newCaret]
    /\ queue' = events
    /\ ev' = Idle(e)
    /\ history' = [history EXCEPT ![e] = IF newText = text[e] THEN @ ELSE None]
    /\ UNCHANGED <<syntax, trackers, cache, lastPos, marker, forcedMarker, preview, exc>>
    /\ UNCHANGED libvars

\* The editor gets focus: onSelectionChange runs with the caret where it is.
Focus(e) ==
    UserEdit(e, text[e], caret[e], <<Event("cursor", e, "focus", 0, caret[e])>>)

\* The user moves the caret (arrow keys, mouse).
MoveCaret(e, p) ==
    /\ p \in 0..Len(text[e])
    /\ p # caret[e]
    /\ UserEdit(e, text[e], p, <<Event("cursor", e, "move", 0, caret[e])>>)

\* The user types character c at the caret.
TypeChar(e, c, maxLen) ==
    /\ Len(text[e]) < maxLen
    /\ UserEdit(e, Slice(text[e], 0, caret[e]) \o <<c>> \o Slice(text[e], caret[e], Len(text[e])),
                caret[e] + 1,
                <<Event("change", e, "ins", 1, caret[e]), Event("cursor", e, "ins", 1, caret[e])>>)

\* Backspace: removes the character before the caret.
Backspace(e) ==
    /\ caret[e] > 0
    /\ UserEdit(e, Slice(text[e], 0, caret[e] - 1) \o Slice(text[e], caret[e], Len(text[e])),
                caret[e] - 1,
                <<Event("change", e, "bs", 1, caret[e]), Event("cursor", e, "bs", 1, caret[e])>>)

\* Forward delete: removes the character at the caret; the caret stays, so
\* cursorActivity may or may not follow.
DeleteForward(e, withCursor) ==
    /\ caret[e] < Len(text[e])
    /\ UserEdit(e, Slice(text[e], 0, caret[e]) \o Slice(text[e], caret[e] + 1, Len(text[e])),
                caret[e],
                <<Event("change", e, "del", 1, caret[e])>>
                  \o (IF withCursor THEN <<Event("cursor", e, "del", 1, caret[e])>> ELSE <<>>))

\* restoreOnUndo(editor, pos, abbr).
restoreOnUndo(S, e, pos, abbr) ==
    IF /\ S.cache[e].type = "abbreviation"
       /\ abbr = S.cache[e].abbreviation
       /\ S.cache[e].range[1] = pos
    THEN restoreTracker(S, e, pos)
    ELSE S

\* undoTracker(editor, change): for a change of origin 'undo', change.from
\* is Event.at and change.text the k characters now found there.
undoTracker(S, e, change) ==
    IF change.edit = "undo" /\ ~HasNewline(Slice(S.text[e], change.at, change.at + change.k))
    THEN restoreOnUndo(S, e, change.at, Slice(S.text[e], change.at, change.at + change.k))
    ELSE S

\* The handlers of `change`, in the order they were registered: undoTracker
\* (pasteTracker acts on a paste only), then onChange of initAbbreviationTracker.
OnChange(e) ==
    /\ queue # <<>>
    /\ Head(queue).kind = "change"
    /\ Head(queue).e = e
    /\ Commit(handleChange(undoTracker(Here, e, Head(queue)), e, caret[e]),
              Tail(queue), "change", e, Head(queue), caret[e])

\* onSelectionChange after handleSelectionChange returned (S.ret).
updatePreview(S, e, pos) ==
    IF S.ret.type = "none" THEN S
    ELSE IF contains(S.ret, pos) THEN showPreview(S, e, S.ret)
    ELSE hidePreview(S)

\* onSelectionChange of initAbbreviationTracker.
OnSelectionChange(e) ==
    /\ queue # <<>>
    /\ Head(queue).kind = "cursor"
    /\ Head(queue).e = e
    /\ Commit(updatePreview(handleSelectionChange(Here, e, caret[e]), e, caret[e]),
              Tail(queue), "cursor", e, Head(queue), caret[e])

\* The emmetResetAbbreviation command (Esc); without a tracker the key is
\* passed on and nothing changes.
resetAbbreviation(e) ==
    /\ queue = <<>>
    /\ Commit(IF trackers[e].type # "none" THEN stopTracking(Here, e, TRUE, FALSE) ELSE Here,
              <<>>, "reset", e, NoEvent, caret[e])

\* The startTracking command wrapper: controller.startTracking, then
\* showPreview if a tracker was returned.
startTrackingShown(S2, e) ==
    IF S2.ret.type # "none" /\ ~S2.exc THEN showPreview(S2, e, S2.ret) ELSE S2

\* editor.setSelection(to) when the selection was not empty.
setSelection(S3, e, from, to) ==
    IF from # to
    THEN [S3 EXCEPT !.caret[e] = to,
                    !.out = @ \o (IF to # S3.caret[e]
                                  THEN <<Event("cursor", e, "cmd", 0, S3.caret[e])>>
                                  ELSE <<>>)]
    ELSE S3

\* enterAbbreviationMode after stopTracking, for the selection from..to.
enterForced(S1, e, from, to, toggled) ==
    IF toggled THEN S1
    ELSE setSelection(
             startTrackingShown(
                 startTracking(S1, e, from, to,
                               [forced |-> TRUE, offset |-> 0,
                                config |-> editorConfig(syntax[e], S1.text[e], from)]),
                 e),
             e, from, to)

\* The emmetEnterAbbreviationMode command, with the selection between
\* `anchor` and the caret.
enterAbbreviationMode(e, anchor) ==
    /\ queue = <<>>
    /\ anchor \in 0..Len(text[e])
    /\ Commit(enterForced(stopTracking(Here, e, FALSE, FALSE), e,
                          Min(anchor, caret[e]), Max(anchor, caret[e]),
                          trackers[e].type # "none" /\ trackers[e].forced),
              <<>>, "enter", e, Event("none", e, "none", 0, anchor), caret[e])

(***************************************************************************)
(* Specifications.                                                         *)
(***************************************************************************)
InitCommon ==
    /\ text = [e \in Editors |-> <<>>]
    /\ caret = [e \in Editors |-> 0]
    /\ queue = <<>>
    /\ trackers = [e \in Editors |-> None]
    /\ cache = [e \in Editors |-> None]
    /\ lastPos = [e \in Editors |-> NoPos]
    /\ marker = None
    /\ forcedMarker = None
    /\ preview = None
    /\ exc = FALSE
    /\ ev = Idle("e1")
    /\ history = [e \in Editors |-> None]

\* No library function is called directly: nothing cached, no config object made.
InitLibrary ==
    /\ stylesheetSnippets = None
    /\ handled = <<>>
    /\ firstOut = <<>>
    /\ scanner = None
    /\ bus_events = <<>>

\* One editor in use, in either syntax.
Init ==
    /\ InitCommon
    /\ InitLibrary
    /\ call = NoCall
    /\ syntax \in {f \in [Editors -> Syntaxes] : f["e2"] = "html"}

Step(e, chars, maxLen) ==
    \/ Focus(e)
    \/ \E p \in 0..maxLen : MoveCaret(e, p)
    \/ \E c \in chars : TypeChar(e, c, maxLen)
    \/ Backspace(e)
    \/ \E withCursor \in BOOLEAN : DeleteForward(e, withCursor)
    \/ OnChange(e)
    \/ OnSelectionChange(e)
    \/ resetAbbreviation(e)
    \/ \E anchor \in 0..maxLen : enterAbbreviationMode(e, anchor)

Next == Step("e1", Alphabet, MaxLen)

Spec == Init /\ [][Next]_vars

\* Two HTML editors driven in any interleaving.
InitMulti ==
    /\ InitCommon
    /\ InitLibrary
    /\ call = NoCall
    /\ syntax = [e \in Editors |-> "html"]

NextMulti == \E e \in Editors : Step(e, Alphabet, MaxLenMulti)

SpecMulti == InitMulti /\ [][NextMulti]_vars

(***************************************************************************)
(* Fuzzy matching of stylesheet abbreviations (scoreMatch, findBestMatch). *)
(* A score is the exact fraction n/d of the number the code computes in    *)
(* floating point; equal fractions built from equal operands are equal     *)
(* floats, which is the only equality the claims below rely on.            *)
(***************************************************************************)
\* Longest string handed to scoreMatch.
MaxStr == 3
\* Longest item list handed to findBestMatch, and its longest key.
MaxItems == 2
MaxKey == 2

\* Characters of the strings matched: letters in both cases and the dash.
MatchAlphabet == {"a", "A", "b", "-"}
\* Characters of the keys findBestMatch is given.
KeyAlphabet == {"a", "b"}

Strings(alphabet, minLen, maxLen) == UNION {[1..n -> alphabet] : n \in minLen..maxLen}

LowerLetters == <<"a", "b", "c", "d", "e", "f", "g", "h", "i", "j", "k", "l", "m",
                  "n", "o", "p", "q", "r", "s", "t", "u", "v", "w", "x", "y", "z">>
UpperLetters == <<"A", "B", "C", "D", "E", "F", "G", "H", "I", "J", "K", "L", "M",
                  "N", "O", "P", "Q", "R", "S", "T", "U", "V", "W", "X", "Y", "Z">>
\* Position of character c in the table chars, 0 when it is not there.
IndexOf(chars, c) ==
    IF \E i \in 1..Len(chars) : chars[i] = c
    THEN CHOOSE i \in 1..Len(chars) : chars[i] = c
    ELSE 0

\* String.prototype.toLowerCase.
toLowerCase(s) ==
    [i \in 1..Len(s) |-> IF IndexOf(UpperLetters, s[i]) # 0
                         THEN LowerLetters[IndexOf(UpperLetters, s[i])]
                         ELSE s[i]]

sum(n) == (n * (n + 1)) \div 2

Zero == [n |-> 0, d |-> 1]
One == [n |-> 1, d |-> 1]
\* x >= y and x = 1 on fractions with positive denominators.
GreaterOrEqual(x, y) == x.n * y.d >= y.n * x.d
IsOne(x) == x.n = x.d

\* The inner `while (j < str2Len)` loop: where ch1 was found (j is left ON
\* the match, not after it), and whether the character before was a dash.
RECURSIVE scanCandidate(_, _, _, _)
scanCandidate(str2, ch1, j, acronym) ==
    IF j >= Len(str2) THEN [found |-> FALSE, j |-> j, acronym |-> acronym]
    ELSE IF ch1 = CharAt(str2, j) THEN [found |-> TRUE, j |-> j, acronym |-> acronym]
    ELSE scanCandidate(str2, ch1, j + 1, CharAt(str2, j) = "-")

\* The outer `while (i < str1Len)` loop, from (i, j, score).
RECURSIVE scoreLoop(_, _, _, _, _, _)
scoreLoop(str1, str2, maxLength, i, j, score) ==
    IF i >= Len(str1) THEN [i |-> i, score |-> score, found |-> TRUE]
    ELSE LET m == scanCandidate(str2, CharAt(str1, i), j, FALSE)
         IN  IF ~m.found THEN [i |-> i, score |-> score, found |-> FALSE]
             ELSE scoreLoop(str1, str2, maxLength, i + 1, m.j,
                            score + maxLength - (IF m.acronym THEN i ELSE m.j))

\* scoreLowered without the test of the first characters.
scoreLowered_noFirstCharTest(str1, str2, partialMatch) ==
    IF str1 = str2 THEN One
    ELSE IF ~partialMatch /\ Len(str1) > Len(str2) THEN Zero
    ELSE LET maxLength == Max(Len(str1), Len(str2))
             minLength == Min(Len(str1), Len(str2))
             r == scoreLoop(str1, str2, maxLength, 1, 1, maxLength)
         IN  IF ~r.found /\ ~partialMatch THEN Zero
             ELSE [n |-> r.score * r.i,
                   d |-> maxLength * (sum(maxLength) - sum(maxLength - minLength))]

\* What scoreMatch returns once both strings are in lower case.
scoreLowered(str1, str2, partialMatch) ==
    IF str1 = str2 THEN One
    ELSE IF str1 = <<>> \/ str2 = <<>> \/ str1[1] # str2[1] THEN Zero
    ELSE IF ~partialMatch /\ Len(str1) > Len(str2) THEN Zero
    ELSE LET maxLength == Max(Len(str1), Len(str2))
             minLength == Min(Len(str1), Len(str2))
             r == scoreLoop(str1, str2, maxLength, 1, 1, maxLength)
         IN  IF ~r.found /\ ~partialMatch THEN Zero
             ELSE [n |-> r.score * r.i,
                   d |-> maxLength * (sum(maxLength) - sum(maxLength - minLength))]

scoreMatch(str1, str2, partialMatch) ==
    scoreLowered(toLowerCase(str1), toLowerCase(str2), partialMatch)

\* findBestMatch over the scoring parts (keys) of the items: the 1-based
\* position of the item returned, 0 for null.
RECURSIVE bestFrom(_, _, _, _, _, _)
bestFrom(abbr, keys, partialMatch, k, matchedItem, maxScore) ==
    IF k > Len(keys) THEN [item |-> matchedItem, maxScore |-> maxScore]
    ELSE LET score == scoreMatch(abbr, keys[k], partialMatch)
         IN  IF IsOne(score) THEN [item |-> k, maxScore |-> One]
             ELSE IF score.n # 0 /\ GreaterOrEqual(score, maxScore)
                  THEN bestFrom(abbr, keys, partialMatch, k + 1, k, score)
                  ELSE bestFrom(abbr, keys, partialMatch, k + 1, matchedItem, maxScore)

findBestMatch(abbr, keys, minScore, partialMatch) ==
    LET r == bestFrom(abbr, keys, partialMatch, 1, 0, Zero)
    IN  IF IsOne(r.maxScore) \/ GreaterOrEqual(r.maxScore, minScore) THEN r.item ELSE 0

(***************************************************************************)
(* Stylesheet abbreviations with values: tokenize$1, parser, parse$1$1 and *)
(* css(), for abbreviations made of letters, digits, `-`, `.`, `#` and     *)
(* `%`.  Every such character starts a token, so tokenize$1 never throws.  *)
(* A number is kept exactly: its sign, integer part and fraction digits.   *)
(***************************************************************************)
HexChars == <<"0", "1", "2", "3", "4", "5", "6", "7", "8", "9", "a", "b", "c", "d", "e", "f">>

isNumber(c) == IndexOf(SubSeq(HexChars, 1, 10), c) # 0
isAlphaWord(c) == c = "_" \/ IndexOf(LowerLetters, c) # 0 \/ IndexOf(UpperLetters, c) # 0

\* scanner.eatWhile(test): the position after the longest run of characters
\* passing the test that starts at pos.
RECURSIVE eatWhile(_, _, _)
eatWhile(s, pos, test) ==
    LET c == CharAt(s, pos)
        isHex == isNumber(c) \/ IndexOf(HexChars, c) # 0 \/ c \in {"A", "B", "C", "D", "E", "F"}
        isLiteral_1 == isAlphaWord(c) \/ c = "%"
        isKeyword == isNumber(c) \/ isAlphaWord(c) \/ c = "-"
        isElementName_1 == isNumber(c) \/ isAlphaWord(c) \/ c \in {"-", ":", "!"}
    IN  IF pos < Len(s) /\ (CASE test = "isNumber" -> isNumber(c)
                              [] test = "isAlphaWord" -> isAlphaWord(c)
                              [] test = "isHex" -> isHex
                              [] test = "isLiteral" -> isLiteral_1
                              [] test = "isKeyword" -> isKeyword
                              [] test = "isElementName" -> isElementName_1
                              [] test = "isSpace" -> isSpace(c)
                              [] test = "$" -> c = "$"
                              [] test = "^" -> c = "^")
        THEN eatWhile(s, pos + 1, test)
        ELSE pos

\* parseInt(digits, base) and Number.prototype.toString(base), base 10 or 16.
RECURSIVE parseInt(_, _)
parseInt(digits, base) ==
    IF digits = <<>> THEN 0
    ELSE parseInt(SubSeq(digits, 1, Len(digits) - 1), base) * base
         + IndexOf(HexChars, toLowerCase(<<digits[Len(digits)]>>)[1]) - 1
RECURSIVE toString(_, _)
toString(n, base) ==
    IF n < base THEN <<HexChars[n + 1]>>
    ELSE toString(n \div base, base) \o <<HexChars[(n % base) + 1]>>

RECURSIVE stripZeros(_)
stripZeros(digits) ==
    IF digits # <<>> /\ digits[Len(digits)] = "0"
    THEN stripZeros(SubSeq(digits, 1, Len(digits) - 1))
    ELSE digits

\* Number(raw) for raw of the form [-]digits[.digits].
Number(raw) ==
    LET neg == raw # <<>> /\ raw[1] = "-"
        body == IF neg THEN Tail(raw) ELSE raw
        dot == IndexOf(body, ".")
    IN  [neg |-> neg,
         int |-> parseInt(IF dot = 0 THEN body ELSE SubSeq(body, 1, dot - 1), 10),
         frac |-> IF dot = 0 THEN <<>> ELSE stripZeros(SubSeq(body, dot + 1, Len(body)))]
IsZero(num) == num.int = 0 /\ num.frac = <<>>

\* frac(num, digits): toFixed(digits) without the trailing zeros.  The
\* fraction digits dropped here are all below 5, so toFixed rounds down.
frac(num, digits) ==
    LET kept == stripZeros(SubSeq(num.frac, 1, Min(digits, Len(num.frac))))
    IN  (IF num.neg /\ (num.int # 0 \/ kept # <<>>) THEN <<"-">> ELSE <<>>)
        \o toString(num.int, 10)
        \o (IF kept = <<>> THEN <<>> ELSE <<".">> \o kept)

\* consumeNumber: the position after the number that starts at `start`,
\* or `start` when there is none.
consumeNumber(s, start) ==
    LET afterNegative == IF CharAt(s, start) = "-" THEN start + 1 ELSE start
        number(prevPos, afterFloat) ==
            LET pos == IF CharAt(s, prevPos) = "."
                       THEN IF prevPos = afterNegative /\ afterFloat = prevPos + 1
                            THEN prevPos ELSE afterFloat
                       ELSE prevPos
            IN  IF pos = afterNegative THEN start ELSE pos
        decimal(prevPos) == number(prevPos, eatWhile(s, prevPos + 1, "isNumber"))
    IN  decimal(eatWhile(s, afterNegative, "isNumber"))

\* numberValue: the token and the position after it; None when no number starts here.
numberValue(s, start) ==
    LET token(pos, end) ==
            IF pos = start THEN None
            ELSE [type |-> "NumberValue", value |-> Number(Slice(s, start, pos)),
                  rawValue |-> Slice(s, start, pos), unit |-> Slice(s, pos, end),
                  start |-> start, end |-> end]
        unit(pos) == token(pos, IF CharAt(s, pos) = "%" THEN pos + 1
                                ELSE eatWhile(s, pos, "isAlphaWord"))
    IN  unit(consumeNumber(s, start))

\* colorAlpha: the alpha text (`.` and digits, "1" for a lone dot, "" for none).
colorAlpha(s, start) ==
    LET digits(end) == [alpha |-> IF end > start + 1 THEN Slice(s, start, end) ELSE <<"1">>,
                        end |-> end]
    IN  IF CharAt(s, start) = "." THEN digits(eatWhile(s, start + 1, "isNumber"))
        ELSE [alpha |-> <<>>, end |-> start]

parseColor(value, alpha) ==
    LET a == Number(IF alpha # <<>> THEN alpha ELSE <<"1">>)
        doubled == value \o value
        zero == <<"0">>
        rgb == CASE value = <<"t">> -> <<zero, zero, zero>>
                 [] Len(value) = 0 -> <<zero, zero, zero>>
                 [] Len(value) = 1 -> <<doubled, doubled, doubled>>
                 [] Len(value) = 2 -> <<value, value, value>>
                 [] Len(value) = 3 -> <<<<value[1], value[1]>>, <<value[2], value[2]>>,
                                        <<value[3], value[3]>>>>
                 [] OTHER -> <<Slice(doubled, 0, 2), Slice(doubled, 2, 4), Slice(doubled, 4, 6)>>
    IN  [r |-> parseInt(rgb[1], 16), g |-> parseInt(rgb[2], 16), b |-> parseInt(rgb[3], 16),
         a |-> IF value = <<"t">> THEN Number(<<"0">>) ELSE a]

\* colorValue: the ColorValue token (or the Literal `#`) that starts at
\* `start`, None when the character there is not `#`.
colorValue(s, start) ==
    LET valueStart == start + 1
        token(isT, color, al) ==
            IF color # <<>> \/ isT \/ al.alpha # <<>> \/ al.end >= Len(s)
            THEN [type |-> "ColorValue", start |-> start, end |-> al.end]
                 @@ parseColor(color, IF isT /\ al.alpha = <<>> THEN <<"0">> ELSE al.alpha)
            ELSE [type |-> "Literal", value |-> Slice(s, start, al.end),
                  start |-> start, end |-> al.end]
        hex(hexEnd, isT) ==
            token(isT,
                  IF hexEnd > valueStart THEN Slice(s, valueStart, hexEnd)
                  ELSE IF isT THEN <<"0">> ELSE <<>>,
                  colorAlpha(s, IF isT THEN valueStart + 1 ELSE hexEnd))
        value(hexEnd) == hex(hexEnd, hexEnd = valueStart /\ CharAt(s, valueStart) = "t")
    IN  IF CharAt(s, start) # "#" THEN None
        ELSE value(eatWhile(s, valueStart, "isHex"))

\* consumePlaceholder(stream) from pos on: where it stops (before the `}`
\* that closes the field), or `throws` when a `{` inside it is left open.
consumePlaceholder(s, pos) ==
    LET RECURSIVE loop(_, _)
        loop(p, stack) ==
            IF p >= Len(s) THEN [end |-> p, throws |-> stack > 0]
            ELSE IF CharAt(s, p) = "{" THEN loop(p + 1, stack + 1)
            ELSE IF CharAt(s, p) = "}"
            THEN IF stack = 0 THEN [end |-> p, throws |-> FALSE] ELSE loop(p + 1, stack - 1)
            ELSE loop(p + 1, stack)
    IN  loop(pos, 0)

\* A token function threw (scanner.error).
Throws == [type |-> "throws"]

\* field$1 (and field of the markup tokenizer once its context allows
\* fields): `${index}`, `${index:placeholder}` or `${variable}`.
field_1(s, start) ==
    LET close(name) ==
            IF name.throws \/ CharAt(s, name.end) # "}" THEN Throws
            ELSE [type |-> "Field", start |-> start, end |-> name.end + 1]
        index(digitsEnd) ==
            IF digitsEnd > start + 2
            THEN close(IF CharAt(s, digitsEnd) = ":" THEN consumePlaceholder(s, digitsEnd + 1)
                       ELSE [end |-> digitsEnd, throws |-> FALSE])
            ELSE IF isAlphaWord(CharAt(s, digitsEnd)) /\ CharAt(s, digitsEnd) # "_"
            THEN close(consumePlaceholder(s, digitsEnd))
            ELSE close([end |-> digitsEnd, throws |-> FALSE])
    IN  IF CharAt(s, start) = "$" /\ CharAt(s, start + 1) = "{"
        THEN index(eatWhile(s, start + 2, "isNumber"))
        ELSE None

\* stringValue: a quoted string, closed or not.
stringValue(s, start) ==
    LET RECURSIVE loop(_)
        loop(p) == IF p >= Len(s) THEN p
                   ELSE IF CharAt(s, p) = CharAt(s, start) THEN p + 1
                   ELSE loop(p + 1)
    IN  IF CharAt(s, start) \in {"\"", "'"}
        THEN [type |-> "StringValue", start |-> start, end |-> loop(start + 1)]
        ELSE None

bracket_1(s, start) ==
    IF CharAt(s, start) \in {"(", ")"}
    THEN [type |-> "Bracket", open |-> CharAt(s, start) = "(", start |-> start, end |-> start + 1]
    ELSE None

whiteSpace(s, start) ==
    IF eatWhile(s, start, "isSpace") # start
    THEN [type |-> "WhiteSpace", start |-> start, end |-> eatWhile(s, start, "isSpace")]
    ELSE None

\* literal$2 that returns a token even when it has consumed nothing.
literal_2_empty(s, start, short) ==
    [type |-> "Literal", value |-> <<>>, start |-> start,
     end |-> IF isAlphaWord(CharAt(s, start))
             THEN eatWhile(s, start + 1, IF short THEN "isLiteral" ELSE "isKeyword")
             ELSE eatWhile(s, IF CharAt(s, start) = "." THEN start + 1 ELSE start, "isLiteral")]

\* literal$2: a variable (`@name`, `$name`), a word, or a literal that may
\* start with a dot.
literal_2(s, start, short) ==
    LET token(end) == IF end = start THEN None
                      ELSE [type |-> "Literal", value |-> Slice(s, start, end),
                            start |-> start, end |-> end]
    IN  token(IF CharAt(s, start) \in {"@", "$"}
              THEN eatWhile(s, start + 1, IF start # 0 THEN "isKeyword" ELSE "isLiteral")
              ELSE IF isAlphaWord(CharAt(s, start))
              THEN eatWhile(s, start + 1, IF short THEN "isLiteral" ELSE "isKeyword")
              ELSE eatWhile(s, IF CharAt(s, start) = "." THEN start + 1 ELSE start, "isLiteral"))

\* operator$1, with operatorType$1.
operator_1(s, start) ==
    IF CharAt(s, start) \in {"+", "!", ",", ":", "-"}
    THEN [type |-> "Operator", operator |-> CharAt(s, start), start |-> start, end |-> start + 1]
    ELSE None

getToken_1(s, start, short) ==
    LET first_(field, number, color_, string, bracket, operator, space) ==
            IF field.type # "none" THEN field
            ELSE IF number.type # "none" THEN number
            ELSE IF color_.type # "none" THEN color_
            ELSE IF string.type # "none" THEN string
            ELSE IF bracket.type # "none" THEN bracket
            ELSE IF operator.type # "none" THEN operator
            ELSE IF space.type # "none" THEN space
            ELSE literal_2(s, start, short)
    IN  first_(field_1(s, start), numberValue(s, start), colorValue(s, start),
               stringValue(s, start), bracket_1(s, start), operator_1(s, start),
               whiteSpace(s, start))

\* shouldConsumeDashAfter that never asks for the dash to be consumed.
shouldConsumeDashAfter_never(token) == FALSE

shouldConsumeDashAfter(token) ==
    token.type = "ColorValue" \/ (token.type = "NumberValue" /\ token.unit = <<>>)

\* mergeTokens: the Literal and NumberValue tokens at the end of the list
\* become one Literal.
mergeTokens(s, tokens) ==
    LET RECURSIVE from(_)
        from(k) == IF k >= 1 /\ tokens[k].type \in {"Literal", "NumberValue"}
                   THEN from(k - 1) ELSE k + 1
        merged(first_) ==
            IF first_ > Len(tokens) THEN tokens
            ELSE SubSeq(tokens, 1, first_ - 1)
                 \o <<[type |-> "Literal",
                       value |-> Slice(s, tokens[first_].start, tokens[Len(tokens)].end),
                       start |-> tokens[first_].start, end |-> tokens[Len(tokens)].end]>>
    IN  merged(from(Len(tokens)))

\* tokenize$1 from position pos on, with `brackets` open and `tokens`
\* pushed so far.  err: it threw; hangs: an iteration of the loop pushed a
\* token and left the scanner where it was, so the loop never ends.
RECURSIVE tokenize_1(_, _, _, _, _)
tokenize_1(s, pos, isValue, brackets, tokens) ==
    LET done(err, hangs, pushed) == [err |-> err, hangs |-> hangs, tokens |-> pushed]
        push(token, dash, depth, pushed) ==
            IF dash.type # "none"
            THEN tokenize_1(s, dash.end, isValue, depth, pushed \o <<token, dash>>)
            ELSE IF token.end <= pos THEN done(FALSE, TRUE, Append(pushed, token))
            ELSE tokenize_1(s, token.end, isValue, depth, Append(pushed, token))
        bracket(token, depth, pushed) ==
            IF depth < 0 THEN done(TRUE, FALSE, pushed)
            ELSE push(token,
                      IF shouldConsumeDashAfter(token) THEN operator_1(s, token.end) ELSE None,
                      depth, pushed)
        step(token) ==
            IF token.type \in {"none", "throws"} THEN done(TRUE, FALSE, tokens)
            ELSE IF token.type = "Bracket"
            THEN bracket(token, brackets + (IF token.open THEN 1 ELSE -1),
                         IF brackets = 0 /\ token.open THEN mergeTokens(s, tokens) ELSE tokens)
            ELSE bracket(token, brackets, tokens)
    IN  IF pos >= Len(s) THEN done(FALSE, FALSE, tokens)
        ELSE step(getToken_1(s, pos, brackets = 0 /\ ~isValue))

\* parser()/consumeProperty on the tokens of one abbreviation.  No sibling
\* operator, bracket or `!` is among the characters modelled, so there is
\* one property: an optional name, then every value token up to the end in
\* one CSSValue (value delimiters are skipped).  err: 'Unexpected token'.
parseProperties(abbr, valueMode) ==
    LET isValue_(token) == token.type \in {"ColorValue", "NumberValue", "Literal"}
        property(tokens, named, values) ==
            IF tokens = <<>> THEN [err |-> FALSE, nodes |-> <<>>]
            ELSE IF ~named /\ values = <<>> THEN [err |-> TRUE, nodes |-> <<>>]
            ELSE [err |-> FALSE,
                  nodes |-> <<[name |-> IF named THEN tokens[1].value ELSE <<>>,
                               value |-> IF values = <<>> THEN <<>> ELSE <<values>>]>>]
        values_(tokens, named) ==
            property(tokens, named, SelectSeq(IF named THEN Tail(tokens) ELSE tokens, isValue_))
        name_(tokens) ==
            values_(tokens, ~valueMode /\ tokens # <<>> /\ tokens[1].type = "Literal")
    IN  name_(tokenize_1(abbr, 0, valueMode, 0, <<>>).tokens)

\* a < b for strings (code unit order) on lower-case letters and `-`.
RECURSIVE StringLess(_, _)
StringLess(a, b) ==
    IF b = <<>> THEN FALSE
    ELSE IF a = <<>> THEN TRUE
    ELSE IF a[1] = b[1] THEN StringLess(Tail(a), Tail(b))
    ELSE IndexOf(<<"-">> \o LowerLetters, a[1]) < IndexOf(<<"-">> \o LowerLetters, b[1])

\* createSnippet for a snippet whose value is a property name alone
\* (reProperty matches with no value part: no values, no keywords).
createSnippet(key, value) ==
    [type |-> "Property", key |-> key, property |-> value]

\* convertSnippets: the snippets of the dictionary, sorted by key (nest).
RECURSIVE convertSnippets(_)
convertSnippets(snippets) ==
    IF DOMAIN snippets = {} THEN <<>>
    ELSE LET key == CHOOSE k \in DOMAIN snippets :
                        \A j \in DOMAIN snippets : j = k \/ StringLess(k, j)
         IN  <<createSnippet(key, snippets[key])>>
             \o convertSnippets([k \in DOMAIN snippets \ {key} |-> snippets[k]])

\* getUnmatchedPart, from character i (0-based) of abbr with str searched from lastPos.
RECURSIVE getUnmatchedPart(_, _, _, _)
getUnmatchedPart(abbr, str, i, lastPos_) ==
    IF i >= Len(abbr) THEN <<>>
    ELSE LET found == {j \in lastPos_..(Len(str) - 1) : str[j + 1] = abbr[i + 1]}
         IN  IF found = {} THEN Slice(abbr, i, Len(abbr))
             ELSE getUnmatchedPart(abbr, str, i + 1,
                                   (CHOOSE j \in found : \A k \in found : j <= k) + 1)

\* defaultOptions$1: the stylesheet options used by the resolver.
defaultOptions_1 ==
    [keywords |-> <<<<"a", "u", "t", "o">>, <<"i", "n", "h", "e", "r", "i", "t">>, <<"u", "n", "s", "e", "t">>>>,
     unitless |-> {<<"z", "-", "i", "n", "d", "e", "x">>, <<"l", "i", "n", "e", "-", "h", "e", "i", "g", "h", "t">>, <<"o", "p", "a", "c", "i", "t", "y">>, <<"f", "o", "n", "t", "-", "w", "e", "i", "g", "h", "t">>, <<"z", "o", "o", "m">>, <<"f", "l", "e", "x">>, <<"f", "l", "e", "x", "-", "g", "r", "o", "w">>, <<"f", "l", "e", "x", "-", "s", "h", "r", "i", "n", "k">>},
     unitAliases |-> (<<"e">> :> <<"e", "m">>) @@ (<<"p">> :> <<"%">>)
                     @@ (<<"x">> :> <<"e", "x">>) @@ (<<"r">> :> <<"r", "e", "m">>),
     intUnit |-> <<"p", "x">>,
     floatUnit |-> <<"e", "m">>]

\* resolveKeyword for a snippet without keywords: the global keywords only;
\* None for null.
resolveKeyword(kw) ==
    LET literal(ref) ==
            IF ref = 0 THEN None ELSE [type |-> "Literal", value |-> defaultOptions_1.keywords[ref]]
    IN  literal(findBestMatch(kw, defaultOptions_1.keywords, Zero, FALSE))

\* resolveValueKeywords: Literal tokens become the keyword they match.
resolveValueKeywords(value) ==
    LET matched(token, kw) == IF kw.type # "none" THEN kw ELSE token
    IN  [v \in 1..Len(value) |->
            [t \in 1..Len(value[v]) |->
                IF value[v][t].type = "Literal"
                THEN matched(value[v][t], resolveKeyword(value[v][t].value))
                ELSE value[v][t]]]

resolveAsProperty(node, snippet) ==
    LET property(inlineValue, kw) ==
            IF inlineValue # <<>> /\ (node.value # <<>> \/ kw.type = "none") THEN node
            ELSE [name |-> snippet.property,
                  value |-> resolveValueKeywords(IF inlineValue # <<>> THEN <<<<kw>>>>
                                                 ELSE node.value)]
        inline(inlineValue) == property(inlineValue, resolveKeyword(inlineValue))
    IN  inline(getUnmatchedPart(node.name, snippet.key, 0, 0))

\* resolveNumericValue without the test for a zero value.
resolveNumericValue_zeroToo(node) ==
    [node EXCEPT !.value =
        [v \in 1..Len(node.value) |->
            [i \in 1..Len(node.value[v]) |->
                LET t == node.value[v][i]
                IN  IF t.type # "NumberValue" THEN t
                    ELSE IF t.unit # <<>>
                    THEN [t EXCEPT !.unit = IF t.unit \in DOMAIN defaultOptions_1.unitAliases
                                            THEN defaultOptions_1.unitAliases[t.unit]
                                            ELSE t.unit]
                    ELSE IF node.name \notin defaultOptions_1.unitless
                    THEN [t EXCEPT !.unit = IF IndexOf(t.rawValue, ".") # 0
                                            THEN defaultOptions_1.floatUnit
                                            ELSE defaultOptions_1.intUnit]
                    ELSE t]]]

resolveNumericValue(node) ==
    [node EXCEPT !.value =
        [v \in 1..Len(node.value) |->
            [i \in 1..Len(node.value[v]) |->
                LET t == node.value[v][i]
                IN  IF t.type # "NumberValue" THEN t
                    ELSE IF t.unit # <<>>
                    THEN [t EXCEPT !.unit = IF t.unit \in DOMAIN defaultOptions_1.unitAliases
                                            THEN defaultOptions_1.unitAliases[t.unit]
                                            ELSE t.unit]
                    ELSE IF ~IsZero(t.value) /\ node.name \notin defaultOptions_1.unitless
                    THEN [t EXCEPT !.unit = IF IndexOf(t.rawValue, ".") # 0
                                            THEN defaultOptions_1.floatUnit
                                            ELSE defaultOptions_1.intUnit]
                    ELSE t]]]

\* resolveNode outside a value scope (no config.context, no gradient).
resolveNode(node, snippets) ==
    LET numeric(resolved) ==
            IF resolved.name # <<>> THEN resolveNumericValue(resolved) ELSE resolved
        property(ix) == numeric(IF ix = 0 THEN node ELSE resolveAsProperty(node, snippets[ix]))
    IN  property(IF node.name = <<>> THEN 0
                 ELSE findBestMatch(node.name, [k \in 1..Len(snippets) |-> snippets[k].key],
                                    Zero, TRUE))

\* parse$1$1: the snippets come from the cache slot when it is filled, else
\* from config.snippets; `snippets` is what the slot holds afterwards when
\* the config carries a cache.
parse_1_1(abbr, config, slot) ==
    LET resolved(graph, parsed) ==
            [err |-> parsed.err, snippets |-> graph,
             nodes |-> [k \in 1..Len(parsed.nodes) |->
                            resolveNode(parsed.nodes[k], graph.snippets)]]
    IN  resolved(IF slot.type # "none" THEN slot
                 ELSE [type |-> "graph", snippets |-> convertSnippets(config.snippets)],
                 parseProperties(abbr, FALSE))

\* color(token, shortHex) with asHex, asRGB, toHex and toShortHex.
color(token, shortHex) ==
    LET isShortHex(n) == n % 17 = 0
        toHex(n) == IF n < 16 THEN <<"0">> \o toString(n, 16) ELSE toString(n, 16)
        short == shortHex /\ isShortHex(token.r) /\ isShortHex(token.g) /\ isShortHex(token.b)
        hex(n) == IF short THEN toString(n \div 16, 16) ELSE toHex(n)
        rgb == toString(token.r, 10) \o <<",", " ">> \o toString(token.g, 10) \o <<",", " ">>
               \o toString(token.b, 10)
    IN  IF token.r = 0 /\ token.g = 0 /\ token.b = 0 /\ IsZero(token.a) THEN <<"t", "r", "a", "n", "s", "p", "a", "r", "e", "n", "t">>
        ELSE IF token.a = Number(<<"1">>) THEN <<"#">> \o hex(token.r) \o hex(token.g) \o hex(token.b)
        ELSE <<"r", "g", "b", "a", "(">> \o rgb \o <<",", " ">> \o frac(token.a, 8) \o <<")">>

\* outputToken that renders every color in the long hex form.
outputToken_longHex(token, config) ==
    CASE token.type = "ColorValue" -> color(token, FALSE)
      [] token.type = "NumberValue" -> frac(token.value, 4) \o token.unit
      [] OTHER -> token.value

outputToken(token, config) ==
    CASE token.type = "ColorValue" -> color(token, config.shortHex)
      [] token.type = "NumberValue" -> frac(token.value, 4) \o token.unit
      [] OTHER -> token.value

\* outputValue: the tokens of one CSSValue; separator is ' ' inside a
\* property value and nothing in a snippet without a name.
RECURSIVE outputValue(_, _, _)
outputValue(tokens, separator, config) ==
    IF tokens = <<>> THEN <<>>
    ELSE outputToken(tokens[1], config)
         \o (IF Len(tokens) > 1 THEN separator ELSE <<>>)
         \o outputValue(Tail(tokens), separator, config)

\* pushField(out, 0, ''): what config.options['output.field'] returns for an
\* empty placeholder.  field is "placeholder" for the library default
\* (index, placeholder) => placeholder; for a field$3() closure it is
\* "unhandled" while its `handled` flag is false and "handled" afterwards.
\* "\\uFFF0" stands for tabStopStart, one character.
pushField(field) == IF field = "unhandled" THEN <<"\\uFFF0">> ELSE <<>>

\* css() for an abbreviation of at most one property: the output and
\* whether a field was pushed.
css(abbr, config, field) ==
    IF abbr = <<>> THEN [value |-> <<>>, pushed |-> FALSE]
    ELSE LET node == abbr[1]
         IN  IF node.name # <<>>
             THEN [value |-> node.name \o <<":", " ">>
                             \o (IF node.value # <<>>
                                 THEN outputValue(node.value[1], <<" ">>, config)
                                 ELSE pushField(field))
                             \o <<";">>,
                   pushed |-> node.value = <<>>]
             ELSE [value |-> outputValue(node.value[1], <<>>, config), pushed |-> FALSE]

\* The entries of the default stylesheet snippets used here.
stylesheetSnippetsDefault ==
    (<<"m">> :> <<"m", "a", "r", "g", "i", "n">>)
    @@ (<<"m", "t">> :> <<"m", "a", "r", "g", "i", "n", "-", "t", "o", "p">>)
    @@ (<<"z">> :> <<"z", "-", "i", "n", "d", "e", "x">>)

\* stylesheet(abbr, resolveConfig({type: 'stylesheet', options})) without a
\* cache: the resolved nodes and the output; err when parse throws.
stylesheet(abbr, config) ==
    LET output(parsed) ==
            [err |-> parsed.err, nodes |-> parsed.nodes,
             out |-> css(parsed.nodes, config, "placeholder").value]
    IN  output(parse_1_1(abbr, config, None))

(***************************************************************************)
(* Specifications of the library functions called on their own: the        *)
(* arguments are chosen initially, the call is one step.                   *)
(***************************************************************************)
\* The editors stay as constructed while the library is exercised.
InitEditorsIdle ==
    /\ InitCommon
    /\ syntax = [e \in Editors |-> "html"]

ScoreMatchCalls ==
    {[fn |-> "scoreMatch", str1 |-> a, str2 |-> b, partialMatch |-> p, done |-> FALSE, ret |-> Zero] :
        a \in Strings(MatchAlphabet, 0, MaxStr), b \in Strings(MatchAlphabet, 0, MaxStr),
        p \in BOOLEAN}

FindBestMatchCalls ==
    {[fn |-> "findBestMatch", abbr |-> a, keys |-> ks, minScore |-> m, partialMatch |-> p,
      done |-> FALSE, ret |-> 0] :
        a \in Strings(KeyAlphabet, 1, MaxKey),
        ks \in Strings(Strings(KeyAlphabet, 1, MaxKey), 0, MaxItems),
        m \in {Zero, [n |-> 1, d |-> 2]}, p \in BOOLEAN}

InitMatch ==
    /\ InitEditorsIdle
    /\ InitLibrary
    /\ call \in ScoreMatchCalls \cup FindBestMatchCalls

Return(value) ==
    /\ ~call.done
    /\ call' = [call EXCEPT !.done = TRUE, !.ret = value]
    /\ UNCHANGED <<stylesheetSnippets, handled, firstOut>>
    /\ UNCHANGED objvars
    /\ UNCHANGED edvars

CallScoreMatch ==
    /\ call.fn = "scoreMatch"
    /\ Return(scoreMatch(call.str1, call.str2, call.partialMatch))

CallFindBestMatch ==
    /\ call.fn = "findBestMatch"
    /\ Return(findBestMatch(call.abbr, call.keys, call.minScore, call.partialMatch))

SpecMatch == InitMatch /\ [][CallScoreMatch \/ CallFindBestMatch]_vars

\* Most values written after the name of a stylesheet abbreviation.
MaxValues == 2

\* The abbreviations expanded: a snippet key or no name, then values, each
\* written right after what precedes it or after a dash.
RECURSIVE CssValueLists(_)
CssValueLists(n) ==
    LET values == {<<"0">>, <<"1", "0">>, <<"2", "0">>, <<"1", ".", "5">>,
                   <<"0", "p">>, <<"1", "0", "e">>, <<"1", "0", "x">>, <<"1", "0", "r">>,
                   <<"1", "0", "p", "x">>,
                   <<"#", "f">>, <<"#", "t">>, <<"#", "0", ".", "5">>}
    IN  IF n = 0 THEN {<<>>}
        ELSE {<<>>} \cup {sep \o v \o rest : sep \in {<<>>, <<"-">>}, v \in values,
                                              rest \in CssValueLists(n - 1)}

StylesheetCalls ==
    {[fn |-> "stylesheet", abbr |-> name \o values, shortHex |-> h, done |-> FALSE,
      ret |-> [err |-> FALSE, nodes |-> <<>>, out |-> <<>>]] :
        name \in {<<>>, <<"m">>, <<"z">>}, values \in CssValueLists(MaxValues), h \in BOOLEAN}

InitCss ==
    /\ InitEditorsIdle
    /\ InitLibrary
    /\ call \in StylesheetCalls

\* expandAbbreviation(abbr, {type: 'stylesheet', options: {'stylesheet.shortHex': h}}).
CallStylesheet ==
    /\ call.fn = "stylesheet"
    /\ Return(stylesheet(call.abbr, [snippets |-> stylesheetSnippetsDefault,
                                     shortHex |-> call.shortHex]))

SpecCss == InitCss /\ [][CallStylesheet]_vars

(***************************************************************************)
(* The plugin's expand(editor, abbr, config) for stylesheet abbreviations, *)
(* called any number of times in one session: the module-level `cache`     *)
(* object and the field$3 closures held by config objects live across the  *)
(* calls.                                                                  *)
(***************************************************************************)
\* Most distinct <<abbreviation, config, snippets>> expansions of a session.
MaxExpansions == 3

\* resolveConfig(opt, globals): mergedData(type, syntax, 'snippets', config,
\* globals) and the options expand leaves at their defaults.  globals names
\* the editor's `emmet.config.stylesheet.snippets` at the time of the call:
\* nothing ("none"), or a dictionary that redefines `m` ("custom").
resolveConfig(globals) ==
    LET snippets == IF globals = "custom"
                    THEN (<<"m">> :> <<"m", "i", "n", "-", "w", "i", "d", "t", "h">>)
                    ELSE <<>>
    IN  [snippets |-> snippets @@ stylesheetSnippetsDefault, shortHex |-> FALSE]

\* getOptions(editor, pos): a new config object, "o1" or "o2", whose options
\* hold a new field$3() closure.
GetOptions ==
    \E c \in {"o1", "o2"} \ DOMAIN handled :
        /\ handled' = handled @@ (c :> "unhandled")
        /\ call' = [fn |-> "getOptions", config |-> c, done |-> TRUE]
        /\ UNCHANGED <<stylesheetSnippets, firstOut>>
        /\ UNCHANGED objvars
        /\ UNCHANGED edvars

\* expand(editor, abbr, config) on a stylesheet abbreviation; the config is
\* an object getOptions made or one written at the call without `options`
\* ("literal").  opt.cache is the module's cache; config.options['output.field'],
\* when the config has options, replaces the closure expand has just made.
Expand ==
    \E abbr \in {<<"m">>, <<"z">>, <<"m", "1", "0">>}, c \in DOMAIN handled \cup {"literal"},
       globals \in {"none", "custom"} :
        LET return(key, parsed, out) ==
                /\ key \in DOMAIN firstOut \/ Cardinality(DOMAIN firstOut) < MaxExpansions
                /\ stylesheetSnippets' = parsed.snippets
                /\ handled' = IF c \in DOMAIN handled /\ out.pushed
                              THEN [handled EXCEPT ![c] = "handled"] ELSE handled
                /\ firstOut' = IF key \in DOMAIN firstOut THEN firstOut
                               ELSE firstOut @@ (key :> out.value)
                /\ call' = [fn |-> "expand", abbr |-> abbr, config |-> c, globals |-> globals,
                            snippets |-> parsed.snippets, done |-> TRUE, ret |-> out.value]
                /\ UNCHANGED objvars
                /\ UNCHANGED edvars
            output(config, parsed) ==
                return(<<abbr, c, globals>>, parsed,
                       css(parsed.nodes, config,
                           IF c \in DOMAIN handled THEN handled[c] ELSE "unhandled"))
            withConfig(config) ==
                output(config, parse_1_1(abbr, config, stylesheetSnippets))
        IN  withConfig(resolveConfig(globals))

\* Nothing is expanded and no config object is made at first.
InitExpand ==
    /\ InitEditorsIdle
    /\ InitLibrary
    /\ call = NoCall

SpecExpand == InitExpand /\ [][GetOptions \/ Expand]_vars

(***************************************************************************)
(* Markup abbreviations written with element names, the operators `>`,     *)
(* `+`, `^` and repeaters with a count: tokenize, abbreviation, convert    *)
(* and resolveSnippets.                                                    *)
(***************************************************************************)
\* repeater$1(scanner) at pos: the Repeater token, type "none" when there is
\* no asterisk.
repeater_1(s, pos) ==
    IF CharAt(s, pos) # "*" THEN [type |-> "none", end |-> pos]
    ELSE LET end == eatWhile(s, pos + 1, "isNumber")
         IN  [type |-> "Repeater",
              count |-> IF end > pos + 1 THEN parseInt(SubSeq(s, pos + 2, end), 10) ELSE 1,
              value |-> 0, implicit |-> end = pos + 1, end |-> end]

(***************************************************************************)
(* The markup tokenizer in full: tokenize(source) with its context `ctx`   *)
(* (open group, attribute and expression brackets and the open quote, ""   *)
(* for none) and every token function of getToken.  A bracket count that   *)
(* went negative is as truthy as a positive one.                           *)
(***************************************************************************)
operatorType(ch) ==
    CASE ch = ">" -> "child" [] ch = "+" -> "sibling" [] ch = "^" -> "climb"
      [] ch = "." -> "class" [] ch = "#" -> "id" [] ch = "/" -> "close"
      [] ch = "=" -> "equal" [] OTHER -> "none"

bracketType(ch) ==
    CASE ch \in {"(", ")"} -> "group" [] ch \in {"[", "]"} -> "attribute"
      [] ch \in {"{", "}"} -> "expression" [] OTHER -> "none"

isOpenBracket(ch) == ch \in {"{", "[", "("}
isQuote(ch) == ch \in {"'", "\""}
isElementName_1(ch) == isNumber(ch) \/ isAlphaWord(ch) \/ ch \in {"-", ":", "!"}

isAllowedOperator(ch, ctx) ==
    /\ operatorType(ch) # "none"
    /\ ctx.quote = ""
    /\ ctx.expression = 0
    /\ (ctx.attribute = 0 \/ operatorType(ch) = "equal")
isAllowedSpace(ch, ctx) == isSpace(ch) /\ ctx.expression = 0
isAllowedRepeater(ch, ctx) == ch = "*" /\ ctx.attribute = 0 /\ ctx.expression = 0

\* field(scanner, ctx): fields are read inside expressions and attributes.
field(s, start, ctx) ==
    IF ctx.expression # 0 \/ ctx.attribute # 0 THEN field_1(s, start) ELSE None

repeaterPlaceholder(s, start) ==
    IF CharAt(s, start) = "$" /\ CharAt(s, start + 1) = "#"
    THEN [type |-> "RepeaterPlaceholder", start |-> start, end |-> start + 2]
    ELSE None

\* repeaterNumber: `$`s, then after `@` the climbs, the dash and the base.
repeaterNumber(s, start) ==
    LET token(size, reverse, base, parent, end) ==
            [type |-> "RepeaterNumber", size |-> size, reverse |-> reverse, base |-> base,
             parent |-> parent, start |-> start, end |-> end]
        number(size, reverse, parent, from, end) ==
            token(size, reverse, IF end > from THEN parseInt(Slice(s, from, end), 10) ELSE 1,
                  parent, end)
        dash(size, parent, p) ==
            number(size, CharAt(s, p) = "-", parent,
                   IF CharAt(s, p) = "-" THEN p + 1 ELSE p,
                   eatWhile(s, IF CharAt(s, p) = "-" THEN p + 1 ELSE p, "isNumber"))
        modifiers(dollars) ==
            IF CharAt(s, dollars) = "@"
            THEN dash(dollars - start, eatWhile(s, dollars + 1, "^") - (dollars + 1),
                      eatWhile(s, dollars + 1, "^"))
            ELSE token(dollars - start, FALSE, 1, 0, dollars)
    IN  IF eatWhile(s, start, "$") = start THEN None ELSE modifiers(eatWhile(s, start, "$"))

\* literal$1 that returns a token even when it has consumed nothing.
literal_1_empty(s, start, ctx) ==
    [type |-> "Literal", value |-> <<>>, start |-> start, end |-> start]

\* literal$1 with escaped(): a backslash takes the next character, whatever
\* the context; otherwise the context says where the literal stops.
literal_1(s, start, ctx) ==
    LET stops(ch) ==
            \/ ch = ctx.quote
            \/ ch = "$"
            \/ isAllowedOperator(ch, ctx)
            \/ ctx.expression # 0 /\ ch = "}"
            \/ /\ ctx.quote = ""
               /\ ctx.expression = 0
               /\ \/ ctx.attribute = 0 /\ ~isElementName_1(ch)
                  \/ isAllowedSpace(ch, ctx)
                  \/ isAllowedRepeater(ch, ctx)
                  \/ isQuote(ch)
                  \/ bracketType(ch) # "none"
        RECURSIVE loop(_, _)
        loop(p, value) ==
            IF p >= Len(s) THEN [end |-> p, value |-> value]
            ELSE IF CharAt(s, p) = "\\"
            THEN loop(Min(p + 2, Len(s)), value \o Slice(s, p + 1, p + 2))
            ELSE IF stops(CharAt(s, p)) THEN [end |-> p, value |-> value]
            ELSE loop(p + 1, Append(value, CharAt(s, p)))
        token(read) == IF read.end = start THEN None
                       ELSE [type |-> "Literal", value |-> read.value,
                             start |-> start, end |-> read.end]
    IN  token(loop(start, <<>>))

operator(s, start) ==
    IF operatorType(CharAt(s, start)) # "none"
    THEN [type |-> "Operator", operator |-> operatorType(CharAt(s, start)),
          start |-> start, end |-> start + 1]
    ELSE None

quote(s, start) ==
    IF isQuote(CharAt(s, start))
    THEN [type |-> "Quote", single |-> CharAt(s, start) = "'", start |-> start, end |-> start + 1]
    ELSE None

bracket(s, start) ==
    IF bracketType(CharAt(s, start)) # "none"
    THEN [type |-> "Bracket", open |-> isOpenBracket(CharAt(s, start)),
          context |-> bracketType(CharAt(s, start)), start |-> start, end |-> start + 1]
    ELSE None

getToken(s, start, ctx) ==
    LET first_(fld, placeholder, number, repeat, space, lit, op, qt) ==
            IF fld.type # "none" THEN fld
            ELSE IF placeholder.type # "none" THEN placeholder
            ELSE IF number.type # "none" THEN number
            ELSE IF repeat.type # "none" THEN [start |-> start] @@ repeat
            ELSE IF space.type # "none" THEN space
            ELSE IF lit.type # "none" THEN lit
            ELSE IF op.type # "none" THEN op
            ELSE IF qt.type # "none" THEN qt
            ELSE bracket(s, start)
    IN  first_(field(s, start, ctx), repeaterPlaceholder(s, start), repeaterNumber(s, start),
               repeater_1(s, start), whiteSpace(s, start), literal_1(s, start, ctx),
               operator(s, start), quote(s, start))

\* The context tokenize starts with.
NoContext == [group |-> 0, attribute |-> 0, expression |-> 0, quote |-> ""]

\* tokenize(source) from position pos on, in context ctx, with `tokens`
\* pushed so far.  err: it threw; hangs: an iteration of the loop pushed a
\* token and left the scanner where it was, so the loop never ends.
RECURSIVE tokenizeMarkup(_, _, _, _)
tokenizeMarkup(source, pos, ctx, tokens) ==
    LET done(err, hangs, pushed) == [err |-> err, hangs |-> hangs, tokens |-> pushed]
        delta(token) == IF token.open THEN 1 ELSE -1
        next(token) ==
            IF token.type = "Quote"
            THEN [ctx EXCEPT !.quote = IF CharAt(source, pos) = @ THEN "" ELSE CharAt(source, pos)]
            ELSE IF token.type = "Bracket"
            THEN [ctx EXCEPT ![token.context] = @ + delta(token)]
            ELSE ctx
        step(token) ==
            IF token.type \in {"none", "throws"} THEN done(TRUE, FALSE, tokens)
            ELSE IF token.end <= pos THEN done(FALSE, TRUE, Append(tokens, token))
            ELSE tokenizeMarkup(source, token.end, next(token), Append(tokens, token))
    IN  IF pos >= Len(source) THEN done(FALSE, FALSE, tokens)
        ELSE step(getToken(source, pos, ctx))

\* Longest source handed to the tokenizers.
MaxSource == 4
\* Its characters: a name character, a digit, and the characters that open
\* or close a field, an expression, an attribute, a group, a string, a
\* number, a colour or an escape in one tokenizer or the other.
SourceAlphabet == {"a", "1", "$", "{", "}", "[", "(", "\"", "-", "#", "\\", "@"}

TokenizeCalls ==
    {[fn |-> "tokenize", source |-> s, isValue |-> FALSE, done |-> FALSE,
      ret |-> [err |-> FALSE, hangs |-> FALSE, tokens |-> <<>>]] :
        s \in Strings(SourceAlphabet, 0, MaxSource)}
    \cup
    {[fn |-> "tokenize$1", source |-> s, isValue |-> v, done |-> FALSE,
      ret |-> [err |-> FALSE, hangs |-> FALSE, tokens |-> <<>>]] :
        s \in Strings(SourceAlphabet, 0, MaxSource), v \in BOOLEAN}

InitTokenize ==
    /\ InitEditorsIdle
    /\ InitLibrary
    /\ call \in TokenizeCalls

CallTokenize ==
    /\ call.fn = "tokenize"
    /\ Return(tokenizeMarkup(call.source, 0, NoContext, <<>>))

CallTokenize_1 ==
    /\ call.fn = "tokenize$1"
    /\ Return(tokenize_1(call.source, 0, call.isValue, 0, <<>>))

SpecTokenize == InitTokenize /\ [][CallTokenize \/ CallTokenize_1]_vars

\* `if (stack.length) ctx = stack.pop()` that climbs out of the group the
\* statements belong to.
climbContext_pastGroup(nodes, ctx, root) == IF ctx # 0 THEN nodes[ctx].parent ELSE ctx

\* `if (stack.length) ctx = stack.pop()` of statements: the stack holds the
\* chain of parents of ctx up to `root`, the TokenGroup this call of
\* statements builds (0: the outermost one).
climbContext(nodes, ctx, root) == IF ctx # root THEN nodes[ctx].parent ELSE ctx

\* abbreviation(tokens) with statements, group, element, elementName,
\* shortAttribute, literal and repeater, for tokens without quotes and
\* without attribute or expression brackets (no attributeSet, no text).
\* The TokenElements and TokenGroups are listed in the order they are made,
\* each with the index of the node whose `elements` holds it (0: the
\* outermost group), the index of the group whose statements made it (root)
\* and the indices of its first and last token.
abbreviationElements(tokens) ==
    LET size == Len(tokens)
        isToken(i, type) == i <= size /\ tokens[i].type = type
        isOperator(i, op) == isToken(i, "Operator") /\ tokens[i].operator = op
        isBracket(i, context, open) ==
            isToken(i, "Bracket") /\ tokens[i].context = context /\ tokens[i].open = open
        RECURSIVE nameEnd(_)
        nameEnd(i) ==
            IF i <= size /\ tokens[i].type \in {"Literal", "RepeaterNumber", "RepeaterPlaceholder"}
            THEN nameEnd(i + 1) ELSE i
        RECURSIVE literalEnd(_)
        literalEnd(i) ==
            IF i <= size /\ tokens[i].type \notin {"Quote", "Operator", "WhiteSpace",
                                                   "Repeater", "Bracket"}
            THEN literalEnd(i + 1) ELSE i
        isEmpty(elem) == elem.name = <<>> /\ elem.attributes = <<>>
        shortAttribute(i) ==
            [name |-> tokens[i].operator, value |-> SubSeq(tokens, i + 1, literalEnd(i + 1) - 1)]
        close(elem, pos) ==
            IF elem.repeat.type = "none" /\ isToken(pos, "Repeater")
            THEN [elem |-> [elem EXCEPT !.selfClose = TRUE, !.repeat = tokens[pos]],
                  pos |-> pos + 1]
            ELSE [elem |-> [elem EXCEPT !.selfClose = TRUE], pos |-> pos]
        RECURSIVE parts(_, _)
        parts(elem, pos) ==
            IF elem.repeat.type = "none" /\ ~isEmpty(elem) /\ isToken(pos, "Repeater")
            THEN parts([elem EXCEPT !.repeat = tokens[pos]], pos + 1)
            ELSE IF isOperator(pos, "id") \/ isOperator(pos, "class")
            THEN parts([elem EXCEPT !.attributes = Append(@, shortAttribute(pos))],
                       literalEnd(pos + 1))
            ELSE IF ~isEmpty(elem) /\ isOperator(pos, "close") THEN close(elem, pos + 1)
            ELSE [elem |-> elem, pos |-> pos]
        node(type, pos, ctx, root) ==
            [type |-> type, name |-> SubSeq(tokens, pos, nameEnd(pos) - 1), attributes |-> <<>>,
             repeat |-> None, selfClose |-> FALSE, parent |-> ctx, root |-> root,
             first |-> pos, last |-> pos]
        element(pos, ctx, root) == parts(node("TokenElement", pos, ctx, root), nameEnd(pos))
        RECURSIVE statementsAt(_, _, _, _)
        RECURSIVE climb(_, _, _, _)
        climb(pos, nodes, ctx, root) ==
            IF isOperator(pos, "climb")
            THEN climb(pos + 1, nodes, climbContext(nodes, ctx, root), root)
            ELSE statementsAt(pos, nodes, ctx, root)
        after(pos, nodes, pushed, ctx, root) ==
            IF isOperator(pos, "child") THEN statementsAt(pos + 1, nodes, pushed, root)
            ELSE IF isOperator(pos, "sibling") THEN statementsAt(pos + 1, nodes, ctx, root)
            ELSE climb(pos, nodes, ctx, root)
        group(inner, g, ctx, root) ==
            LET repeated == isBracket(inner.pos, "group", FALSE)
                                /\ isToken(inner.pos + 1, "Repeater")
                end == IF repeated THEN inner.pos + 2 ELSE inner.pos + 1
            IN  after(end,
                      [inner.nodes EXCEPT ![g].repeat = IF repeated THEN tokens[inner.pos + 1]
                                                        ELSE None,
                                          ![g].last = end - 1],
                      g, ctx, root)
        statementsAt(pos, nodes, ctx, root) ==
            LET placed(e, made) ==
                    IF ~isEmpty(e.elem)
                    THEN after(e.pos, Append(nodes, [e.elem EXCEPT !.last = e.pos - 1]),
                               made, ctx, root)
                    ELSE IF isBracket(pos, "group", TRUE)
                    THEN group(statementsAt(pos + 1,
                                            Append(nodes, [node("TokenGroup", pos, ctx, root)
                                                             EXCEPT !.name = <<>>]),
                                            made, made),
                               made, ctx, root)
                    ELSE [pos |-> pos, nodes |-> nodes]
            IN  IF pos > size THEN [pos |-> pos, nodes |-> nodes]
                ELSE placed(element(pos, ctx, root), Len(nodes) + 1)
        result == statementsAt(1, <<>>, 0, 0)
    IN  [err |-> result.pos <= size, nodes |-> result.nodes]

\* tokenVisitor.RepeaterNumber that counts from 0 whatever the base.
RepeaterNumber_zeroBased(token, repeaters) ==
    LET RECURSIVE pad(_)
        pad(digits) == IF Len(digits) < token.size THEN pad(<<"0">> \o digits) ELSE digits
    IN  pad(toString(IF repeaters = <<>> THEN 1 ELSE repeaters[Len(repeaters)].value, 10))

\* tokenVisitor.RepeaterNumber, with state.repeaters as `repeaters`.
RepeaterNumber(token, repeaters) ==
    LET lastIx == Len(repeaters)
        parentIx == Max(1, lastIx - token.parent)
        own(repeater) == IF token.reverse
                         THEN token.base + repeater.count - repeater.value - 1
                         ELSE token.base + repeater.value
        value == IF repeaters = <<>> THEN 1
                 ELSE own(repeaters[lastIx])
                      + (IF token.parent # 0 /\ parentIx # lastIx
                         THEN repeaters[lastIx].count * repeaters[parentIx].value ELSE 0)
        RECURSIVE pad(_)
        pad(digits) == IF Len(digits) < token.size THEN pad(<<"0">> \o digits) ELSE digits
    IN  pad(toString(value, 10))

\* stringify(token, state) for the tokens of a name or of a short attribute;
\* without options.text a RepeaterPlaceholder is the empty string.
stringify(token, repeaters) ==
    CASE token.type = "Literal" -> token.value
      [] token.type = "RepeaterNumber" -> RepeaterNumber(token, repeaters)
      [] OTHER -> <<>>

RECURSIVE stringifyName(_, _)
stringifyName(tokens, repeaters) ==
    IF tokens = <<>> THEN <<>>
    ELSE stringify(Head(tokens), repeaters) \o stringifyName(Tail(tokens), repeaters)

\* stringifyValue for tokens without fields: one string, or nothing.
stringifyValue(tokens, repeaters) ==
    IF stringifyName(tokens, repeaters) = <<>> THEN <<>>
    ELSE <<stringifyName(tokens, repeaters)>>

\* convertAttribute for a short attribute: name is [createLiteral(type)];
\* `given` tells a value from `undefined`.
convertAttribute(attr, repeaters) ==
    [name |-> IF attr.name = "class" THEN <<"c", "l", "a", "s", "s">> ELSE <<"i", "d">>,
     given |-> attr.value # <<>>,
     value |-> stringifyValue(attr.value, repeaters),
     boolean |-> FALSE, implied |-> FALSE, valueType |-> "raw"]

attachRepeater(items, repeater) ==
    <<>> \o [k \in 1..Len(items) |-> IF items[k].repeat.type = "none"
                                     THEN [items[k] EXCEPT !.repeat = repeater]
                                     ELSE items[k]]

\* convert(abbr) with convertGroup, convertStatement and convertElement, for
\* options without text and without maxRepeat (repeatGuard is infinite) and
\* repeaters with a count.
convert(nodes) ==
    LET RECURSIVE convertStatement(_, _)
        RECURSIVE elements(_, _, _)
        RECURSIVE copies(_, _, _, _)
        convertElement(i, repeat, repeaters) ==
            <<[name |-> stringifyName(nodes[i].name, repeaters),
               attributes |-> <<>> \o [k \in 1..Len(nodes[i].attributes) |->
                                          convertAttribute(nodes[i].attributes[k], repeaters)],
               repeat |-> repeat, selfClosing |-> nodes[i].selfClose,
               children |-> elements(i, 1, repeaters)]>>
        convertGroup(i, repeat, repeaters) ==
            IF repeat.type # "none" THEN attachRepeater(elements(i, 1, repeaters), repeat)
            ELSE elements(i, 1, repeaters)
        convertNode(i, repeat, repeaters) ==
            IF nodes[i].type = "TokenGroup" THEN convertGroup(i, repeat, repeaters)
            ELSE convertElement(i, repeat, repeaters)
        elements(parent, j, repeaters) ==
            IF j > Len(nodes) THEN <<>>
            ELSE (IF nodes[j].parent = parent THEN convertStatement(j, repeaters) ELSE <<>>)
                 \o elements(parent, j + 1, repeaters)
        item(i, repeat, repeaters) == convertNode(i, repeat, Append(repeaters, repeat))
        copies(i, value, count, repeaters) ==
            IF value >= count THEN <<>>
            ELSE item(i, [nodes[i].repeat EXCEPT !.count = count, !.value = value], repeaters)
                 \o copies(i, value + 1, count, repeaters)
        convertStatement(i, repeaters) ==
            IF nodes[i].repeat.type # "none"
            THEN copies(i, 0, IF nodes[i].repeat.count # 0 THEN nodes[i].repeat.count ELSE 1,
                        repeaters)
            ELSE convertNode(i, None, repeaters)
    IN  elements(0, 1, <<>>)

\* parseAbbreviation(abbr, options): the children of the Abbreviation; err
\* when tokenize or abbreviation throws.
parseAbbreviationNodes(abbr) ==
    LET tokens == tokenizeMarkup(abbr, 0, NoContext, <<>>)
        parsed == abbreviationElements(tokens.tokens)
        err == tokens.err \/ parsed.err
    IN  [err |-> err, children |-> IF err THEN <<>> ELSE convert(parsed.nodes)]

(***************************************************************************)
(* statements() on abbreviations with climbs: element names joined by `>`,  *)
(* `+` or a run of `^`, with or without a group.                           *)
(***************************************************************************)
\* Longest run of climb operators written.
MaxClimbs == 3

Separators == {<<">">>, <<"+">>} \cup {[k \in 1..n |-> "^"] : n \in 1..MaxClimbs}

AbbreviationCalls ==
    {[fn |-> "abbreviation", abbr |-> abbr, done |-> FALSE,
      ret |-> [err |-> FALSE, tokens |-> <<>>, nodes |-> <<>>]] :
        abbr \in UNION {{<<"a">> \o s1 \o <<"b">> \o s2 \o <<"c">> \o s3 \o <<"d">>,
                         <<"a", ">", "(", "b">> \o s1 \o <<"c">> \o s2 \o <<"d", ")">> \o s3 \o <<"e">>,
                         <<"(", "a">> \o s1 \o <<"b", ")">> \o s2 \o <<"c">> \o s3 \o <<"d">>,
                         <<"a">> \o s1 \o <<"(", "b">> \o s2 \o <<"c", ")", "*", "2">> \o s3 \o <<"d">>} :
                            s1 \in Separators, s2 \in Separators, s3 \in Separators}}

InitStatements ==
    /\ InitEditorsIdle
    /\ InitLibrary
    /\ call \in AbbreviationCalls

\* abbreviation(tokenize(abbr)): the tokens and the nodes made of them.
abbreviationOf(tokens) ==
    [err |-> tokens.err \/ abbreviationElements(tokens.tokens).err,
     tokens |-> tokens.tokens,
     nodes |-> abbreviationElements(tokens.tokens).nodes]

CallAbbreviation ==
    /\ call.fn = "abbreviation"
    /\ Return(abbreviationOf(tokenizeMarkup(call.abbr, 0, NoContext, <<>>)))

SpecStatements == InitStatements /\ [][CallAbbreviation]_vars

\* Most nested calls of resolve the engine's call stack holds; a call beyond
\* it raises the engine's RangeError.
MaxCallStack == 5

\* stack.includes(snippet), with the test that makes it fail always.
includes_never(stack, snippet) == FALSE

includes(stack, snippet) == \E i \in 1..Len(stack) : stack[i] = snippet

\* resolveSnippets(abbr, config) with its resolve closure, walkResolve,
\* findDeepest and mergeNodes.  snippets[name] is <<>> for a name without a
\* snippet.  The result holds the resolved children, the greatest length
\* of `stack`, the names of the nodes kept because their snippet was in the
\* stack, and whether a call raised an error.  parsed[name] is
\* parseAbbreviation(config.snippets[name], config), which resolve reads when
\* it takes the snippet of a node of that name.
resolveSnippets(abbr, snippets) ==
    LET walk(parsed) ==
          LET RECURSIVE appendDeepest(_, _)
              appendDeepest(children, extra) ==
                  IF children[Len(children)].children = <<>>
                  THEN [children EXCEPT ![Len(children)].children = extra]
                  ELSE [children EXCEPT ![Len(children)].children = appendDeepest(@, extra)]
              mergeNodes(from, to) ==
                  IF from.repeat.type # "none" THEN [to EXCEPT !.repeat = from.repeat] ELSE to
              concat(first_, rest) ==
                  [children |-> first_.children \o rest.children,
                   depth |-> Max(first_.depth, rest.depth),
                   kept |-> first_.kept \cup rest.kept,
                   err |-> first_.err \/ rest.err]
              \* (the merged top nodes are built as a sequence, so that EXCEPT
              \* reaches the children of the last of them)
              resolved(child, stack, snippetAbbr, inner, own) ==
                  [children |-> IF inner.children = <<>> THEN <<>>
                                ELSE appendDeepest(<<>> \o [k \in 1..Len(inner.children) |->
                                                                mergeNodes(child, inner.children[k])],
                                                   own.children),
                   depth |-> Max(Len(stack) + 1, Max(inner.depth, own.depth)),
                   kept |-> inner.kept \cup own.kept,
                   err |-> snippetAbbr.err \/ inner.err \/ own.err]
              keep(child, found, own) ==
                  [own EXCEPT !.children = <<[child EXCEPT !.children = own.children]>>,
                              !.kept = @ \cup found]
              RECURSIVE walkResolve(_, _)
              RECURSIVE resolve(_, _, _)
              resolve(child, stack, snippet) ==
                  IF snippet = <<>> \/ includes(stack, snippet)
                  THEN keep(child, IF snippet # <<>> THEN {child.name} ELSE {},
                            walkResolve(child.children, stack))
                  ELSE IF Len(stack) >= MaxCallStack
                  THEN [children |-> <<>>, depth |-> Len(stack), kept |-> {}, err |-> TRUE]
                  ELSE resolved(child, stack, parsed[child.name],
                                walkResolve(parsed[child.name].children, Append(stack, snippet)),
                                walkResolve(child.children, stack))
              walkResolve(children, stack) ==
                  IF children = <<>>
                  THEN [children |-> <<>>, depth |-> Len(stack), kept |-> {}, err |-> FALSE]
                  ELSE concat(resolve(Head(children), stack,
                                      IF Head(children).name \in DOMAIN snippets
                                      THEN snippets[Head(children).name] ELSE <<>>),
                              walkResolve(Tail(children), stack))
          IN  walkResolve(abbr, <<>>)
    IN  walk([name \in DOMAIN snippets |-> parseAbbreviationNodes(snippets[name])])

\* The calls: parseAbbreviation on an element `b` repeated `count` times, on
\* its own, as a child or as a sibling, with or without a child or sibling
\* of its own; resolveSnippets on a parsed abbreviation and a dictionary
\* for the names `a` and `b`.
MarkupCalls ==
    {[fn |-> "parseAbbreviation", abbr |-> before \o <<"b", "*">> \o count \o after,
      count |-> count, done |-> FALSE, ret |-> [err |-> FALSE, children |-> <<>>]] :
        before \in {<<>>, <<"a", ">">>, <<"a", "+">>},
        count \in {<<"0">>, <<"1">>, <<"2">>, <<"3">>, <<"0", "0">>, <<"0", "2">>},
        after \in {<<>>, <<">", "c">>, <<"+", "c">>, <<">", "c", "*", "2">>}}
    \cup
    {[fn |-> "resolveSnippets", abbr |-> abbr, snippets |-> snippets, done |-> FALSE,
      ret |-> [children |-> <<>>, depth |-> 0, kept |-> {}, err |-> FALSE]] :
        abbr \in {<<"a">>, <<"b">>, <<"a", ">", "b">>, <<"c", "+", "a", "*", "2">>},
        snippets \in [{<<"a">>, <<"b">>} ->
                        {<<>>, <<"a">>, <<"b">>, <<"a", ">", "b">>, <<"b", "+", "a">>, <<"c">>}]}

CallParseAbbreviation ==
    /\ call.fn = "parseAbbreviation"
    /\ Return(parseAbbreviationNodes(call.abbr))

\* parse$1(abbr, config) up to resolveSnippets.
CallResolveSnippets ==
    /\ call.fn = "resolveSnippets"
    /\ Return(resolveSnippets(parseAbbreviationNodes(call.abbr).children, call.snippets))

InitMarkup ==
    /\ InitEditorsIdle
    /\ InitLibrary
    /\ call \in MarkupCalls

SpecMarkup == InitMarkup /\ [][CallParseAbbreviation \/ CallResolveSnippets]_vars

(***************************************************************************)
(* The playground's event bus (src/unnamed/part_000): bind, unbind and     *)
(* trigger on the `_events` map.  Handlers are opaque functions that do    *)
(* not touch the bus themselves.                                           *)
(***************************************************************************)
\* Most handlers bound to one event.
MaxHandlers == 3
BusEvents == {"selectedTag", "other"}
Handlers == {"f", "g"}

\* Array.prototype.indexOf: the 0-based index of the first occurrence, or -1.
indexOf(list, func) ==
    IF \E i \in 1..Len(list) : list[i] = func
    THEN (CHOOSE i \in 1..Len(list) : list[i] = func /\ \A j \in 1..(i - 1) : list[j] # func) - 1
    ELSE -1

\* Array.prototype.splice(start, deleteCount): a negative start counts from
\* the end of the array.
splice(list, start, deleteCount) ==
    LET from == IF start < 0 THEN Max(Len(list) + start, 0) ELSE Min(start, Len(list))
        count == Min(Max(deleteCount, 0), Len(list) - from)
    IN  SubSeq(list, 1, from) \o SubSeq(list, from + count + 1, Len(list))

\* A bus method ran: `before` is the handler list of the event it found
\* (<<>> when the event had no entry), ret the handlers it called, in order.
BusCall(fn, event, func, ret) ==
    /\ call' = [fn |-> fn, event |-> event, func |-> func, done |-> TRUE, ret |-> ret,
                before |-> IF event \in DOMAIN bus_events THEN bus_events[event] ELSE <<>>]
    /\ UNCHANGED <<stylesheetSnippets, handled, firstOut, scanner>>
    /\ UNCHANGED edvars

bind(event, func) ==
    /\ event \in DOMAIN bus_events => Len(bus_events[event]) < MaxHandlers
    /\ bus_events' = IF event \in DOMAIN bus_events
                     THEN [bus_events EXCEPT ![event] = Append(@, func)]
                     ELSE bus_events @@ (event :> <<func>>)
    /\ BusCall("bind", event, func, <<>>)

unbind(event, func) ==
    /\ bus_events' = IF event \in DOMAIN bus_events
                     THEN [bus_events EXCEPT ![event] = splice(@, indexOf(@, func), 1)]
                     ELSE bus_events
    /\ BusCall("unbind", event, func, <<>>)

trigger(event) ==
    /\ UNCHANGED bus_events
    /\ BusCall("trigger", event, "none",
               IF event \in DOMAIN bus_events THEN bus_events[event] ELSE <<>>)

\* No handler is bound when the playground loads.
InitBus ==
    /\ InitEditorsIdle
    /\ InitLibrary
    /\ call = NoCall

NextBus ==
    \E event \in BusEvents :
        \/ \E func \in Handlers : bind(event, func)
        \/ \E func \in Handlers : unbind(event, func)
        \/ trigger(event)

SpecBus == InitBus /\ [][NextBus]_vars

(***************************************************************************)
(* The Scanner class and the consumers eatQuoted and eatPair.  A scanner   *)
(* is the record of its fields; a method is an operator from the scanner   *)
(* to the scanner it leaves and the value it returns ("" stands for        *)
(* `undefined` and for the NaN that peek() gives past the string).         *)
(***************************************************************************)
\* Longest string a Scanner is made for.
MaxScan == 3
\* A name character, a quote, the escape character and a pair of brackets.
ScanAlphabet == {"a", "\"", "\\", "(", ")"}

\* constructor(str, start, end); NoPos stands for an argument left out.
Scanner_constructor(str, start, end) ==
    [string |-> str,
     start |-> IF start = NoPos THEN 0 ELSE start,
     pos |-> IF start = NoPos THEN 0 ELSE start,
     end |-> IF end = NoPos THEN Len(str) ELSE end]

Scanner_eof(s) == s.pos >= s.end

Scanner_limit(s, start, end) == Scanner_constructor(s.string, start, end)

Scanner_peek(s) == CharAt(s.string, s.pos)

Scanner_next(s) ==
    IF s.pos < Len(s.string)
    THEN [scanner |-> [s EXCEPT !.pos = @ + 1], ret |-> CharAt(s.string, s.pos)]
    ELSE [scanner |-> s, ret |-> ""]

\* eat(match): match is a character or the name of a test function.
Scanner_eat(s, match) ==
    LET ch == Scanner_peek(s)
        ok == IF match = "isQuote" THEN ch \in {"\"", "'"} ELSE ch = match
    IN  [scanner |-> IF ok THEN Scanner_next(s).scanner ELSE s, ret |-> ok]

RECURSIVE Scanner_eatLoop(_, _)
Scanner_eatLoop(s, match) ==
    IF ~Scanner_eof(s) /\ Scanner_eat(s, match).ret
    THEN Scanner_eatLoop(Scanner_eat(s, match).scanner, match)
    ELSE s
Scanner_eatWhile(s, match) ==
    [scanner |-> Scanner_eatLoop(s, match), ret |-> Scanner_eatLoop(s, match).pos # s.pos]

Scanner_backUp(s, n) == [s EXCEPT !.pos = @ - (IF n = 0 THEN 1 ELSE n)]

\* eatQuoted(stream, options) with the default options (escape: `\`,
\* throws: false).
eatQuoted(stream) ==
    LET RECURSIVE loop(_)
        loop(s) ==
            IF Scanner_eof(s) THEN [scanner |-> [s EXCEPT !.pos = stream.pos], ret |-> FALSE]
            ELSE LET n == Scanner_next(s)
                 IN  IF n.ret = Scanner_peek(stream)
                     THEN [scanner |-> [n.scanner EXCEPT !.start = stream.pos], ret |-> TRUE]
                     ELSE IF n.ret = "\\" THEN loop(Scanner_next(n.scanner).scanner)
                     ELSE loop(n.scanner)
    IN  IF Scanner_eat(stream, "isQuote").ret THEN loop(Scanner_eat(stream, "isQuote").scanner)
        ELSE [scanner |-> stream, ret |-> FALSE]

\* eatPair(stream, open, close, options) with the default options.
eatPair(stream, open, close) ==
    LET RECURSIVE loop(_, _)
        loop(s, stack) ==
            IF Scanner_eof(s) THEN [scanner |-> [s EXCEPT !.pos = stream.pos], ret |-> FALSE]
            ELSE IF eatQuoted(s).ret THEN loop(eatQuoted(s).scanner, stack)
            ELSE LET n == Scanner_next(s)
                 IN  IF n.ret = open THEN loop(n.scanner, stack + 1)
                     ELSE IF n.ret = close
                     THEN IF stack = 1
                          THEN [scanner |-> [n.scanner EXCEPT !.start = stream.pos], ret |-> TRUE]
                          ELSE loop(n.scanner, stack - 1)
                     ELSE IF n.ret = "\\" THEN loop(Scanner_next(n.scanner).scanner, stack)
                     ELSE loop(n.scanner, stack)
    IN  IF Scanner_eat(stream, open).ret THEN loop(Scanner_eat(stream, open).scanner, 1)
        ELSE [scanner |-> stream, ret |-> FALSE]

\* A method of the scanner in use ran and left `result`.
ScannerCall(fn, result) ==
    /\ scanner' = result.scanner
    /\ call' = [fn |-> fn, done |-> TRUE, ret |-> result.ret]
    /\ UNCHANGED <<stylesheetSnippets, handled, firstOut, bus_events>>
    /\ UNCHANGED edvars

\* new Scanner(str) on a whole string, as tokenize does, or on the part of
\* it from start to end, as attributes() does.
NewScanner ==
    \E n \in 0..MaxScan : \E str \in [1..n -> ScanAlphabet] :
        \E range \in {<<NoPos, NoPos>>} \cup {r \in (0..n) \X (0..n) : r[1] <= r[2]} :
            /\ scanner = None
            /\ ScannerCall("constructor",
                           [scanner |-> Scanner_constructor(str, range[1], range[2]), ret |-> ""])

\* scanner.limit(start, end) for a range inside the string; the scanner in
\* use from then on is the one returned.
Limit ==
    /\ scanner # None
    /\ \E start \in 0..Len(scanner.string), end \in 0..Len(scanner.string) :
          /\ start <= end
          /\ ScannerCall("limit", [scanner |-> Scanner_limit(scanner, start, end), ret |-> ""])

NextChar ==
    /\ scanner # None
    /\ ScannerCall("next", Scanner_next(scanner))

Eat ==
    /\ scanner # None
    /\ \E match \in ScanAlphabet \cup {"isQuote"} : ScannerCall("eat", Scanner_eat(scanner, match))

EatWhile ==
    /\ scanner # None
    /\ \E match \in ScanAlphabet \cup {"isQuote"} :
          ScannerCall("eatWhile", Scanner_eatWhile(scanner, match))

\* backUp(n), by no more than the characters read since the start of the
\* current token.
BackUp ==
    /\ scanner # None
    /\ \E n \in 0..MaxScan :
          /\ (IF n = 0 THEN 1 ELSE n) <= scanner.pos - scanner.start
          /\ ScannerCall("backUp", [scanner |-> Scanner_backUp(scanner, n), ret |-> ""])

EatQuoted ==
    /\ scanner # None
    /\ ScannerCall("eatQuoted", eatQuoted(scanner))

EatPair ==
    /\ scanner # None
    /\ ScannerCall("eatPair", eatPair(scanner, "(", ")"))

InitScanner ==
    /\ InitEditorsIdle
    /\ InitLibrary
    /\ call = NoCall

NextScanner ==
    NewScanner \/ Limit \/ NextChar \/ Eat \/ EatWhile \/ BackUp \/ EatQuoted \/ EatPair

SpecScanner == InitScanner /\ [][NextScanner]_vars

(***************************************************************************)
(* expandAbbreviation(abbr) for markup with the default configuration:     *)
(* parse$1 (parseAbbreviation, resolveSnippets, transform) and the html    *)
(* formatter.  Strings are sequences of characters.                        *)
(***************************************************************************)
\* defaultOptions$1 of the configuration.
inlineElements ==
    {<<"a">>, <<"a", "b", "b", "r">>, <<"a", "c", "r", "o", "n", "y", "m">>,
     <<"a", "p", "p", "l", "e", "t">>, <<"b">>, <<"b", "a", "s", "e", "f", "o", "n", "t">>,
     <<"b", "d", "o">>, <<"b", "i", "g">>, <<"b", "r">>, <<"b", "u", "t", "t", "o", "n">>,
     <<"c", "i", "t", "e">>, <<"c", "o", "d", "e">>, <<"d", "e", "l">>, <<"d", "f", "n">>,
     <<"e", "m">>, <<"f", "o", "n", "t">>, <<"i">>, <<"i", "f", "r", "a", "m", "e">>,
     <<"i", "m", "g">>, <<"i", "n", "p", "u", "t">>, <<"i", "n", "s">>, <<"k", "b", "d">>,
     <<"l", "a", "b", "e", "l">>, <<"m", "a", "p">>, <<"o", "b", "j", "e", "c", "t">>,
     <<"q">>, <<"s">>, <<"s", "a", "m", "p">>, <<"s", "e", "l", "e", "c", "t">>,
     <<"s", "m", "a", "l", "l">>, <<"s", "p", "a", "n">>, <<"s", "t", "r", "i", "k", "e">>,
     <<"s", "t", "r", "o", "n", "g">>, <<"s", "u", "b">>, <<"s", "u", "p">>,
     <<"t", "e", "x", "t", "a", "r", "e", "a">>, <<"t", "t">>, <<"u">>, <<"v", "a", "r">>}
output_indent == <<"\t">>
output_newline == <<"\n">>
output_baseIndent == <<>>
output_formatSkip == {<<"h", "t", "m", "l">>}
output_formatForce == {<<"b", "o", "d", "y">>}
output_inlineBreak == 3

\* elementMap of implicitTag, by parent name.
elementMap ==
    [name \in {<<"p">>, <<"u", "l">>, <<"o", "l">>, <<"t", "a", "b", "l", "e">>,
              <<"t", "r">>, <<"t", "b", "o", "d", "y">>, <<"t", "h", "e", "a", "d">>,
              <<"t", "f", "o", "o", "t">>, <<"c", "o", "l", "g", "r", "o", "u", "p">>,
              <<"s", "e", "l", "e", "c", "t">>, <<"o", "p", "t", "g", "r", "o", "u", "p">>,
              <<"a", "u", "d", "i", "o">>, <<"v", "i", "d", "e", "o">>,
              <<"o", "b", "j", "e", "c", "t">>, <<"m", "a", "p">>} |->
        CASE name \in {<<"u", "l">>, <<"o", "l">>} -> <<"l", "i">>
          [] name \in {<<"t", "a", "b", "l", "e">>, <<"t", "b", "o", "d", "y">>, <<"t", "h", "e", "a", "d">>, <<"t", "f", "o", "o", "t">>} -> <<"t", "r">>
          [] name \in {<<"s", "e", "l", "e", "c", "t">>, <<"o", "p", "t", "g", "r", "o", "u", "p">>} -> <<"o", "p", "t", "i", "o", "n">>
          [] name \in {<<"a", "u", "d", "i", "o">>, <<"v", "i", "d", "e", "o">>} -> <<"s", "o", "u", "r", "c", "e">>
          [] name = <<"p">> -> <<"s", "p", "a", "n">>
          [] name = <<"t", "r">> -> <<"t", "d">>
          [] name = <<"c", "o", "l", "g", "r", "o", "u", "p">> -> <<"c", "o", "l">>
          [] name = <<"o", "b", "j", "e", "c", "t">> -> <<"p", "a", "r", "a", "m">>
          [] name = <<"m", "a", "p">> -> <<"a", "r", "e", "a">>]

\* isInline(node, config) for a name, and for a node without a value.
isInline(name) == toLowerCase(name) \in inlineElements
isInlineNode(node) == node.name # <<>> /\ isInline(node.name)

\* isSnippet(node); None stands for `undefined`.
isSnippet(node) == node.type # "none" /\ node.name = <<>> /\ node.attributes = <<>>

\* resolveImplicitTag: the name for a node whose nearest element ancestor
\* is named parentName ("" for none: the context of the default
\* configuration has no name).
resolveImplicitTag(parentName) ==
    IF toLowerCase(parentName) \in DOMAIN elementMap THEN elementMap[toLowerCase(parentName)]
    ELSE IF isInline(parentName) THEN <<"s", "p", "a", "n">> ELSE <<"d", "i", "v">>

\* walk(abbr, transform, config): implicitTag on every node, parents first.
\* mergeAttributes leaves attributes with distinct names as they are, lorem
\* a name that does not start with `lorem`; xsl, jsx and bem are off.
RECURSIVE transform(_, _)
transform(children, parentName) ==
    <<>> \o [k \in 1..Len(children) |->
        LET named(name) == [children[k] EXCEPT !.name = name,
                                               !.children = transform(@, name)]
        IN  named(IF children[k].name = <<>> /\ children[k].attributes # <<>>
                  THEN resolveImplicitTag(parentName) ELSE children[k].name)]

\* parse$1(abbr, config): err when parseAbbreviation or resolveSnippets
\* throws.  No name made of the letters used here is a key of markupSnippets.
parse_1(abbr) ==
    LET resolve(parsed, resolved) ==
            [err |-> parsed.err \/ resolved.err,
             children |-> IF parsed.err \/ resolved.err THEN <<>>
                          ELSE transform(resolved.children, <<>>)]
        parsed_(parsed) == resolve(parsed, resolveSnippets(parsed.children, <<>>))
    IN  parsed_(parseAbbreviationNodes(abbr))

\* pushNewline(stream, indent) with a numeric indent: the text pushed.
RECURSIVE pushIndent(_)
pushIndent(size) == IF size <= 0 THEN <<>> ELSE output_indent \o pushIndent(size - 1)
pushNewline(indent) == output_newline \o output_baseIndent \o pushIndent(indent)

\* pushTokens for the strings of a value (output.field of the default
\* options returns the placeholder, which is empty for the caret).
RECURSIVE pushTokens(_)
pushTokens(tokens) == IF tokens = <<>> THEN <<>> ELSE Head(tokens) \o pushTokens(Tail(tokens))

\* pushAttribute: the attribute is neither boolean nor an expression, the
\* quotes are double and the case is kept; `field` is what output.field
\* returns for the caret that stands in for a missing value.
pushAttribute(attr, caretText) ==
    IF attr.name = <<>> THEN <<>>
    ELSE <<" ">> \o attr.name \o <<"=", "\"">>
         \o (IF attr.given THEN pushTokens(attr.value) ELSE caretText) \o <<"\"">>

shouldOutputAttribute(attr) == ~attr.implied \/ attr.valueType # "raw" \/ attr.value # <<>>

\* getIndent(state) for state.parent.
getIndent(parent) ==
    IF parent.type = "none" \/ isSnippet(parent)
          \/ (parent.name # <<>> /\ parent.name \in output_formatSkip)
    THEN 0 ELSE 1

\* shouldFormat(node, index, items, state), with the 0-based index and
\* state.parent; output.format is on and no node is a snippet.
RECURSIVE shouldFormat(_, _, _)
shouldFormat(index, items, parent) ==
    LET node == items[index + 1]
        inlineAt(i) == i >= 0 /\ i < Len(items) /\ isInlineNode(items[i + 1])
        RECURSIVE before(_)
        before(i) == IF inlineAt(i) THEN 1 + before(i - 1) ELSE 0
        RECURSIVE after(_)
        after(i) == IF inlineAt(i) THEN 1 + after(i + 1) ELSE 0
    IN  IF index = 0 /\ parent.type = "none" THEN FALSE
        ELSE IF parent.type # "none" /\ isSnippet(parent) /\ Len(items) = 1 THEN FALSE
        ELSE IF ~isInlineNode(node) THEN TRUE
        ELSE \/ index = 0 /\ \E i \in 1..Len(items) : ~isInlineNode(items[i])
             \/ index # 0 /\ ~isInlineNode(items[index])
             \/ 1 + before(index - 1) + after(index + 1) >= output_inlineBreak
             \/ \E i \in 1..Len(node.children) : shouldFormat(i - 1, node.children, parent)

\* html(abbr, config): walk$1 with element$1 over the children of the
\* abbreviation.  `level` is out.level when element$1 is entered, `field`
\* what output.field returns for the caret of an element without content.
html(children, caretText) ==
    LET RECURSIVE element_1(_, _, _, _)
        RECURSIVE attributes(_)
        attributes(attrs) ==
            IF attrs = <<>> THEN <<>>
            ELSE (IF shouldOutputAttribute(Head(attrs)) THEN pushAttribute(Head(attrs), caretText) ELSE <<>>)
                 \o attributes(Tail(attrs))
        RECURSIVE each(_, _, _, _)
        each(index, items, parent, level) ==
            IF index >= Len(items) THEN <<>>
            ELSE element_1(index, items, parent, level) \o each(index + 1, items, parent, level)
        leaf(node, level) ==
            IF node.name \in output_formatForce
            THEN pushNewline(level + 1) \o caretText \o pushNewline(level) ELSE caretText
        content(node, level) ==
            IF node.selfClosing /\ node.children = <<>> THEN <<">">>
            ELSE <<">">> \o each(0, node.children, [node EXCEPT !.children = <<>>] @@ [type |-> "AbbreviationNode"], level)
                 \o (IF node.children = <<>> THEN leaf(node, level) ELSE <<>>)
                 \o <<"<", "/">> \o node.name \o <<">">>
        formatted(node, index, items, parent, level, format) ==
            (IF format THEN pushNewline(level) ELSE <<>>)
            \o (IF node.name # <<>>
                THEN <<"<">> \o node.name \o attributes(node.attributes) \o content(node, level)
                ELSE <<>>)
            \o (IF format /\ index = Len(items) - 1 /\ parent.type # "none"
                THEN pushNewline(level - (IF isSnippet(parent) THEN 0 ELSE 1)) ELSE <<>>)
        element_1(index, items, parent, level) ==
            formatted(items[index + 1], index, items, parent, level + getIndent(parent),
                      shouldFormat(index, items, parent))
    IN  each(0, children, None, 0)

\* markup(abbr, config) with the default configuration and `field` for
\* what its output.field returns ('' by default).
markup(abbr, caretText) ==
    LET out(parsed) == [err |-> parsed.err,
                        out |-> IF parsed.err THEN <<>> ELSE html(parsed.children, caretText)]
    IN  out(parse_1(abbr))

\* The abbreviations expanded: a block element with one child, which is a
\* list item, a paragraph, an inline element or an element without a name,
\* with or without a numbered class and repeated up to MaxItemRepeat times.
MaxItemRepeat == 3

ExpandMarkupCalls ==
    {[fn |-> "expandAbbreviation", abbr |-> parent \o <<">">> \o child \o class \o repeat,
      done |-> FALSE, ret |-> [err |-> FALSE, out |-> <<>>]] :
        parent \in {<<"u", "l">>, <<"o", "l">>, <<"d", "i", "v">>, <<"p">>},
        child \in {<<>>, <<"l", "i">>, <<"p">>, <<"b">>},
        class \in {<<>>, <<".", "i", "t", "e", "m">>, <<".", "i", "t", "e", "m", "$">>, <<".", "i", "t", "e", "m", "$", "$">>, <<".", "i", "t", "e", "m", "$", "@", "3">>, <<".", "i", "t", "e", "m", "$", "@", "-">>},
        repeat \in {<<>>} \cup {<<"*", toString(n, 10)[1]>> : n \in 1..MaxItemRepeat}}

InitExpandMarkup ==
    /\ InitEditorsIdle
    /\ InitLibrary
    /\ call \in ExpandMarkupCalls

\* expandAbbreviation(abbr) with no config: resolveConfig gives type
\* 'markup' and syntax 'html'.
CallExpandAbbreviation ==
    /\ call.fn = "expandAbbreviation"
    /\ Return(markup(call.abbr, <<>>))

SpecExpandMarkup == InitExpandMarkup /\ [][CallExpandAbbreviation]_vars

(***************************************************************************)
(* The Tab expand command on a tracked markup abbreviation, and undo of    *)
(* its expansion.  CodeMirror signals `change` and `cursorActivity` when   *)
(* the outermost operation ends: inside replaceWithSnippet when the        *)
(* command is run by itself (execCommand), after the command when it is    *)
(* run from a key map.                                                     *)
(***************************************************************************)
\* Longest text typed before an expansion.
MaxLenTab == 3
\* Characters typed: a name character that is no snippet, and the sibling operator.
TabAlphabet == {"p", "+"}

\* String.fromCodePoint(0xFFF0), as one character of a snippet.
tabStopStart == "FFF0"

\* The closure field$3() returns, applied to the fields of `out` in order:
\* the first field pushed while its `handled` is unset gets the tab stop.
RECURSIVE field_3(_, _)
field_3(out, isHandled) ==
    IF out = <<>> THEN <<>>
    ELSE IF Head(out) = tabStopStart
         THEN (IF isHandled THEN <<>> ELSE <<tabStopStart>>) \o field_3(Tail(out), TRUE)
    ELSE <<Head(out)>> \o field_3(Tail(out), isHandled)

\* expand(editor, abbr, config) for a markup config made by getOptions:
\* config.options['output.field'] takes the place of the new closure.
expand(abbr, config) ==
    LET withField(expanded) == [expanded EXCEPT !.out = field_3(@, config.handled)]
    IN  withField(markup(abbr, <<tabStopStart>>))

\* replaceWithSnippet up to editor.operation, for a snippet whose fields
\* have no placeholder (no tabStopEnd): the index of the tab stop, -1
\* without one, and the snippet without it.
fieldStart(snippet) ==
    LET fields == {i \in 1..Len(snippet) : snippet[i] = tabStopStart}
    IN  IF fields = {} THEN -1 ELSE (CHOOSE i \in fields : \A j \in fields : i <= j) - 1
withoutTabStop(snippet) ==
    IF fieldStart(snippet) = -1 THEN snippet
    ELSE Slice(snippet, 0, fieldStart(snippet))
         \o Slice(snippet, fieldStart(snippet) + 1, Len(snippet))

\* replaceWithSnippet: the range, clipped to the document, is replaced, and
\* the cursor is put at the tab stop, or is left where replaceRange moves it
\* (a cursor of the range goes to the end of the new text).  Replacing
\* nothing by nothing is no change; cursorActivity follows when the cursor
\* moved.
replaceWithSnippet(S, e, range, snippet) ==
    LET operation(fieldStartIx, clean, from, to, c, moved, selFrom) ==
            IF from = to /\ clean = <<>>
            THEN [S EXCEPT !.caret[e] = selFrom,
                           !.out = @ \o (IF selFrom # c THEN <<Event("cursor", e, "tab", 0, c)>>
                                         ELSE <<>>)]
            ELSE [S EXCEPT !.text[e] = Slice(@, 0, from) \o clean \o Slice(@, to, Len(@)),
                           !.caret[e] = selFrom,
                           !.out = @ \o <<Event("change", e, "tab", Len(clean), c)>>
                                     \o (IF moved # c \/ selFrom # moved
                                         THEN <<Event("cursor", e, "tab", Len(clean), c)>>
                                         ELSE <<>>)]
        select(fieldStartIx, clean, from, to, c, moved) ==
            operation(fieldStartIx, clean, from, to, c, moved,
                      IF fieldStartIx # -1
                      THEN Min(range[1] + fieldStartIx, Len(S.text[e]) + Len(clean) - (to - from))
                      ELSE moved)
        replaceRange(fieldStartIx, clean, from, to, c) ==
            select(fieldStartIx, clean, from, to, c,
                   IF c < from THEN c ELSE IF c <= to THEN from + Len(clean)
                   ELSE c + Len(clean) - (to - from))
        toRange(fieldStartIx, clean, from) ==
            replaceRange(fieldStartIx, clean, from,
                         Min(Max(range[2], from), Len(S.text[e])), S.caret[e])
    IN  toRange(fieldStart(snippet), withoutTabStop(snippet),
                Min(Max(range[1], 0), Len(S.text[e])))

\* runExpand(editor, abbr, range, options); expand marks the closure of the
\* options handled when it pushed a field.
runExpand(S, e, abbr, range, options) ==
    LET replaced(snippet) ==
            IF snippet.err THEN raise(S)
            ELSE replaceWithSnippet(IF fieldStart(snippet.out) # -1
                                    THEN [S EXCEPT !.trackers[e].config.handled = TRUE] ELSE S,
                                    e, range, snippet.out)
    IN  replaced(expand(abbr, options))

\* The handlers of one event, as OnChange and OnSelectionChange run them.
handleEvent(S, e, event) ==
    IF event.kind = "change"
    THEN handleChange(undoTracker(S, e, event), e, S.caret[e])
    ELSE updatePreview(handleSelectionChange(S, e, S.caret[e]), e, S.caret[e])

\* The end of an operation that owns its group: the signalled events are
\* handled, and so are the events their handlers signal.
RECURSIVE fireCallbacks(_, _, _)
fireCallbacks(S, e, events) ==
    IF events = <<>> \/ S.exc THEN [S EXCEPT !.out = <<>>]
    ELSE LET fired(S1) == fireCallbacks(S1, e, Tail(events) \o S1.out)
         IN  fired(handleEvent([S EXCEPT !.out = <<>>], e, Head(events)))

\* What an expansion leaves in the editor: the text before it with the
\* range replaced by the snippet.
Expanded(h) == Slice(h.before, 0, h.range[1]) \o h.snippet \o Slice(h.before, h.range[2], Len(h.before))

\* expandAbbreviationWithTab with marking on and an Abbreviation tracker
\* that contains the caret (otherwise the key is passed on); `during` says
\* that the events of the replacement are delivered before
\* replaceWithSnippet returns.
expandAbbreviationWithTab(e, during) ==
    /\ queue = <<>>
    /\ trackers[e].type = "abbreviation"
    /\ contains(trackers[e], caret[e])
    /\ LET delivered(S1) == IF during THEN fireCallbacks(S1, e, S1.out) ELSE S1
           stopped(S2) == [stopTracking(S2, e, FALSE, TRUE) EXCEPT !.note = "expanded"]
           from == Min(Max(trackers[e].range[1], 0), Len(text[e]))
           snippet(S1) == IF S1.out # <<>> /\ Head(S1.out).kind = "change"
                          THEN Slice(S1.text[e], from, from + Head(S1.out).k) ELSE <<>>
           returned(S1) ==
               CommitWith(stopped(delivered(S1)), <<>>, "tab", e,
                          Event("none", e, "tab", Len(snippet(S1)), caret[e]), caret[e],
                          [history EXCEPT ![e] = [type |-> "expansion", before |-> text[e],
                                                  range |-> trackers[e].range,
                                                  snippet |-> snippet(S1),
                                                  caret |-> caret[e]]])
       IN  returned(runExpand(Here, e, trackers[e].abbreviation, trackers[e].range,
                              trackers[e].config))

\* CodeMirror's undo when the expansion is the last change: the snippet is
\* replaced by the text of the range and the selection from before the
\* expansion comes back.  The change has origin 'undo', starts at the range
\* (Event.at) and inserts one line; cursorActivity follows when the cursor
\* moved, and may follow when it did not.  ev.note tells an undo that comes
\* right after the expansion and its events from a later one.
Undo(e, withCursor) ==
    /\ queue = <<>>
    /\ history[e].type = "expansion"
    /\ text[e] = Expanded(history[e])
    /\ withCursor \/ history[e].caret = caret[e]
    /\ text' = [text EXCEPT ![e] = history[e].before]
    /\ caret' = [caret EXCEPT ![e] = history[e].caret]
    /\ queue' = <<Event("change", e, "undo", Len(Slice(history[e].before, history[e].range[1],
                                                       history[e].range[2])),
                        history[e].range[1])>>
                 \o (IF withCursor THEN <<Event("cursor", e, "undo", 0, caret[e])>> ELSE <<>>)
    /\ ev' = [Idle(e) EXCEPT !.note = IF ev.edit = "tab" THEN "undoes expansion" ELSE "none"]
    /\ history' = [history EXCEPT ![e] = None]
    /\ UNCHANGED <<syntax, trackers, cache, lastPos, marker, forcedMarker, preview, exc>>
    /\ UNCHANGED libvars

HasTag(s) == \E i \in 1..Len(s) : s[i] = "<"

\* One HTML editor.  An abbreviation is typed, or the abbreviation mode is
\* entered, in a document without tags; the caret moves over the first
\* MaxLenTab characters; Tab expands and undo takes the expansion back.
InitTab ==
    /\ InitCommon
    /\ InitLibrary
    /\ call = NoCall
    /\ syntax = [e \in Editors |-> "html"]

NextTab ==
    \/ /\ ~HasTag(text["e1"])
       /\ \/ \E c \in TabAlphabet : TypeChar("e1", c, MaxLenTab)
          \/ \E anchor \in 0..MaxLenTab : enterAbbreviationMode("e1", anchor)
    \/ \E p \in 0..MaxLenTab : MoveCaret("e1", p)
    \/ OnChange("e1")
    \/ OnSelectionChange("e1")
    \/ \E during \in BOOLEAN : expandAbbreviationWithTab("e1", during)
    \/ \E withCursor \in BOOLEAN : Undo("e1", withCursor)

SpecTab == InitTab /\ [][NextTab]_vars

(***************************************************************************)
(* Claims.  ev describes the event or command handled by the last step:    *)
(* ev.pre is the tracker the handler found, ev.at the caret before a user  *)
(* edit, ev.k the number of characters the edit inserted or removed,       *)
(* ev.pos the caret the handler read.                                      *)
(***************************************************************************)

\* C1: after a change event for an insertion of k characters at a caret
\* inside the range of the active tracker, a tracker that is still active
\* has the same range[0] and range[1] grown by exactly k.
C1_InsertGrowsRange ==
    (/\ ev.op = "change"
     /\ ev.edit = "ins"
     /\ ev.pre.type # "none"
     /\ ev.pre.range[1] <= ev.at
     /\ ev.at <= ev.pre.range[2]
     /\ trackers[ev.e].type # "none")
    => trackers[ev.e].range = <<ev.pre.range[1], ev.pre.range[2] + ev.k>>

\* C2: after a change event for a deletion (backspace or forward delete) of
\* k characters that all lie inside the range of the active tracker, a
\* tracker that is still active has the same range[0] and range[1] shrunk by
\* exactly k.
C2_DeleteShrinksRange ==
    (/\ ev.op = "change"
     /\ ev.edit \in {"bs", "del"}
     /\ ev.pre.type # "none"
     /\ LET first == IF ev.edit = "bs" THEN ev.at - ev.k ELSE ev.at
        IN  ev.pre.range[1] <= first /\ first + ev.k <= ev.pre.range[2]
     /\ trackers[ev.e].type # "none")
    => trackers[ev.e].range = <<ev.pre.range[1], ev.pre.range[2] - ev.k>>

\* C3: after a change event for a user edit whose characters lie wholly
\* outside the range of the active tracker (such as a backspace with the
\* caret at range[0] or a forward delete with the caret at range[1]), no
\* tracker is active for the editor.
C3_OutsideEditStops ==
    (/\ ev.op = "change"
     /\ ev.pre.type # "none"
     /\ \/ ev.edit = "ins" /\ (ev.at < ev.pre.range[1] \/ ev.at > ev.pre.range[2])
        \/ ev.edit = "bs" /\ (ev.at <= ev.pre.range[1] \/ ev.at - ev.k >= ev.pre.range[2])
        \/ ev.edit = "del" /\ (ev.at + ev.k <= ev.pre.range[1] \/ ev.at >= ev.pre.range[2]))
    => trackers[ev.e].type = "none"

C5_DegenerateStops ==
    /\ (ev.op = "change" /\ ev.note = "degenerate") => trackers[ev.e].type = "none"
    /\ (ev.op = "cursor" /\ ev.prev = "degenerate") => trackers[ev.e].type = "none"

\* C6: no handler lets an exception escape: a failed parse of the tracked
\* text leaves an Error tracker or no tracker, so every tracker is of type
\* Abbreviation or Error, and one of type Abbreviation holds text that parses.
C6_NoExceptionEscapes ==
    /\ exc = FALSE
    /\ \A e \in Editors :
          /\ trackers[e].type \in {"none", "abbreviation", "error"}
          /\ trackers[e].type = "abbreviation"
             => IF trackers[e].config.type = "stylesheet"
                THEN parse(trackers[e].abbreviation)
                ELSE parseAbbreviation(trackers[e].abbreviation)

\* A change event whose parse failed was handled: the tracker is in the
\* Error state and no exception escaped.
C6_Witness ==
    /\ ev.op = "change"
    /\ trackers[ev.e].type = "error"
    /\ ~exc

C8_ForcedAcceptsEmpty ==
    /\ (/\ ev.op = "enter"
        /\ ev.at = ev.pos
        /\ ~(ev.pre.type # "none" /\ ev.pre.forced))
       => (trackers[ev.e].type # "none" /\ trackers[ev.e].forced)
    /\ (/\ ev.op = "change"
        /\ ev.pre.type # "none"
        /\ ev.pre.forced
        /\ ev.pre.range[1] <= ev.pre.lastPos
        /\ ev.pre.lastPos <= ev.pre.range[2]
        /\ LET range == updateRange(ev.pre.range, Len(text[ev.e]) - ev.pre.lastLength,
                                    ev.pre.lastPos)
           IN  range[1] = range[2])
       => /\ trackers[ev.e].type # "none"
          /\ trackers[ev.e].forced
          /\ trackers[ev.e].abbreviation = <<>>

\* C9: a reset of an active tracker leaves no tracker and an empty cache
\* slot; it leaves the text alone if the tracker is not forced and otherwise
\* removes exactly one occurrence of the tracked abbreviation (nothing when
\* it is empty); handling the change event of that removal changes neither
\* the text nor the absence of a tracker.
C9_ResetRemovesAbbreviation ==
    /\ (ev.op = "reset" /\ ev.pre.type # "none")
       => /\ trackers[ev.e].type = "none"
          /\ cache[ev.e].type = "none"
          /\ IF ev.pre.forced
             THEN \E i \in 0..Len(ev.preText) :
                     /\ Slice(ev.preText, i, i + Len(ev.pre.abbreviation)) = ev.pre.abbreviation
                     /\ text[ev.e] = Slice(ev.preText, 0, i)
                                       \o Slice(ev.preText, i + Len(ev.pre.abbreviation),
                                                Len(ev.preText))
             ELSE text[ev.e] = ev.preText
    /\ (ev.op = "change" /\ ev.edit = "cmd" /\ ev.pre.type = "none")
       => /\ text[ev.e] = ev.preText
          /\ trackers[ev.e].type = "none"

\* C10: a step that handles an event or command of one editor leaves every
\* other editor's tracker, cached tracker, last caret position, range
\* marker, forced marker and preview as they were.
C10_EditorsIsolated ==
    [][\A f \in Editors :
          (ev'.op # "input" /\ ev'.e # f)
          => /\ trackers'[f] = trackers[f]
             /\ cache'[f] = cache[f]
             /\ lastPos'[f] = lastPos[f]
             /\ (marker.type # "none" /\ marker.ed = f) => marker' = marker
             /\ (forcedMarker.type # "none" /\ forcedMarker.ed = f)
                => forcedMarker' = forcedMarker
             /\ (preview.type # "none" /\ preview.ed = f) => preview' = preview]_vars

(***************************************************************************)
(* Claims about the library functions.  call holds the arguments of the    *)
(* call made and, once call.done, what it returned.                        *)
(***************************************************************************)
Returned(fn) == call.fn = fn /\ call.done

\* C15 (as stated): scoreMatch(s1, s2) returns 0 for every pair of
\* non-empty strings whose first characters differ, with partial matching
\* on or off.
C15_FirstCharsDifferZero ==
    (Returned("scoreMatch") /\ call.str1 # <<>> /\ call.str2 # <<>>
        /\ call.str1[1] # call.str2[1])
    => call.ret.n = 0

\* C15 (amended): scoreMatch(s1, s2) returns 0 for every pair of non-empty
\* strings whose first characters differ after both are put in lower case,
\* with partial matching on or off.
C15_LoweredFirstCharsDifferZero ==
    (Returned("scoreMatch") /\ call.str1 # <<>> /\ call.str2 # <<>>
        /\ toLowerCase(call.str1)[1] # toLowerCase(call.str2)[1])
    => call.ret.n = 0

\* C15 witness: a call returned 0 for strings that differ in the first
\* character only (the rest of str1 is found in str2).
C15_Witness ==
    /\ Returned("scoreMatch")
    /\ call.ret.n = 0
    /\ Len(call.str1) >= 2
    /\ Len(call.str2) = Len(call.str1)
    /\ toLowerCase(call.str1)[1] # toLowerCase(call.str2)[1]
    /\ Tail(call.str1) = Tail(call.str2)

\* s is a subsequence of t: its characters occur in t in order, at strictly
\* increasing positions.
RECURSIVE IsSubsequence(_, _)
IsSubsequence(s, t) ==
    IF s = <<>> THEN TRUE
    ELSE IF t = <<>> THEN FALSE
    ELSE IF Head(s) = Head(t) THEN IsSubsequence(Tail(s), Tail(t))
    ELSE IsSubsequence(s, Tail(t))

\* C16: with partial matching off, scoreMatch(abbr, candidate) is non-zero
\* only if the lowercased abbr is a subsequence of the lowercased candidate.
C16_NonZeroOnlyForSubsequence ==
    (Returned("scoreMatch") /\ ~call.partialMatch /\ call.ret.n # 0)
    => IsSubsequence(toLowerCase(call.str1), toLowerCase(call.str2))

\* Items of `keys` holding the highest non-zero score for abbr.
TopItems(abbr, keys, partialMatch) ==
    {k \in 1..Len(keys) :
        /\ scoreMatch(abbr, keys[k], partialMatch).n # 0
        /\ \A j \in 1..Len(keys) :
              GreaterOrEqual(scoreMatch(abbr, keys[k], partialMatch),
                             scoreMatch(abbr, keys[j], partialMatch))}

\* C17: when several candidates share the highest non-zero score below 1
\* (and that score reaches minScore), findBestMatch returns the one that
\* comes first in the iteration order of the item list.
C17_TieReturnsFirst ==
    Returned("findBestMatch") =>
       LET top == TopItems(call.abbr, call.keys, call.partialMatch)
       IN  (/\ Cardinality(top) >= 2
            /\ \A k \in top :
                  LET score == scoreMatch(call.abbr, call.keys[k], call.partialMatch)
                  IN  score.n < score.d /\ GreaterOrEqual(score, call.minScore))
           => call.ret = CHOOSE k \in top : \A j \in top : k <= j

\* The number tokens of the one property of the call's abbreviation, as
\* written (before) and as resolved (after); positions are kept by resolveNode.
WrittenTokens == parseProperties(call.abbr, FALSE).nodes[1].value[1]
ResolvedProperty ==
    /\ Returned("stylesheet")
    /\ ~call.ret.err
    /\ call.ret.nodes # <<>>
    /\ call.ret.nodes[1].name # <<>>
    /\ call.ret.nodes[1].value # <<>>
    /\ Len(call.ret.nodes[1].value[1]) = Len(WrittenTokens)
ExpectedUnit(written) ==
    CASE written.unit = <<"e">> -> <<"e", "m">>
      [] written.unit = <<"p">> -> <<"%">>
      [] written.unit = <<"x">> -> <<"e", "x">>
      [] written.unit = <<"r">> -> <<"r", "e", "m">>
      [] written.unit # <<>> -> written.unit
      [] OTHER -> IF \E k \in 1..Len(written.rawValue) : written.rawValue[k] = "."
                  THEN <<"e", "m">> ELSE <<"p", "x">>
UnitlessProperties == {<<"z", "-", "i", "n", "d", "e", "x">>, <<"l", "i", "n", "e", "-", "h", "e", "i", "g", "h", "t">>, <<"o", "p", "a", "c", "i", "t", "y">>, <<"f", "o", "n", "t", "-", "w", "e", "i", "g", "h", "t">>, <<"z", "o", "o", "m">>,
                       <<"f", "l", "e", "x">>, <<"f", "l", "e", "x", "-", "g", "r", "o", "w">>, <<"f", "l", "e", "x", "-", "s", "h", "r", "i", "n", "k">>}

C19_DashKeepsSign ==
    (Returned("stylesheet") /\ call.abbr = <<"m", "1", "0", "-", "2", "0">>)
    => (~call.ret.err /\ call.ret.out = <<"m", "a", "r", "g", "i", "n", ":", " ", "1", "0", "p", "x", " ", "-", "2", "0", "p", "x", ";">>)

\* C19 (amended): with default options, expanding the CSS abbreviation
\* `m10-20` returns exactly `margin: 10px 20px;` (the dash after a
\* unit-less number is a value delimiter).
C19_DashDelimits ==
    (Returned("stylesheet") /\ call.abbr = <<"m", "1", "0", "-", "2", "0">>)
    => (~call.ret.err /\ call.ret.out = <<"m", "a", "r", "g", "i", "n", ":", " ", "1", "0", "p", "x", " ", "2", "0", "p", "x", ";">>)

\* C19 witness: `m10-20` was expanded.
C19_Witness ==
    /\ Returned("stylesheet")
    /\ call.abbr = <<"m", "1", "0", "-", "2", "0">>
    /\ ~call.ret.err
    /\ Len(call.ret.nodes[1].value[1]) = 2

\* C20: a color shorthand value renders as follows: `#f` as `#ffffff` (as
\* `#fff` when the shortHex option is on), `#t` as `transparent`, and
\* `#0.5` as `rgba(0, 0, 0, 0.5)`.
C20_ColorShorthands ==
    Returned("stylesheet") =>
        /\ call.abbr = <<"#", "f">> =>
              call.ret.out = IF call.shortHex THEN <<"#", "f", "f", "f">> ELSE <<"#", "f", "f", "f", "f", "f", "f">>
        /\ call.abbr = <<"#", "t">> => call.ret.out = <<"t", "r", "a", "n", "s", "p", "a", "r", "e", "n", "t">>
        /\ call.abbr = <<"#", "0", ".", "5">> => call.ret.out = <<"r", "g", "b", "a", "(", "0", ",", " ", "0", ",", " ", "0", ",", " ", "0", ".", "5", ")">>

\* C20 witness: `#f` was rendered with the shortHex option on.
C20_Witness ==
    /\ Returned("stylesheet")
    /\ call.abbr = <<"#", "f">>
    /\ call.shortHex
    /\ call.ret.out # <<>>

\* C11: every stylesheet expansion resolves the abbreviation with the snippet
\* graph compiled from its own config.snippets, whatever was expanded before.
C11_GraphOfOwnConfig ==
    Returned("expand") =>
        call.snippets = [type |-> "graph",
                         snippets |-> convertSnippets(resolveConfig(call.globals).snippets)]

\* C12: an expansion returns the string that the first expansion of the same
\* abbreviation with the same config returned.
C12_SameOutputAsFirst ==
    Returned("expand") => call.ret = firstOut[<<call.abbr, call.config, call.globals>>]

\* The nodes with the given name among the nodes and their descendants, in
\* document order.
RECURSIVE NodesNamed(_, _)
NodesNamed(children, name) ==
    IF children = <<>> THEN <<>>
    ELSE (IF Head(children).name = name THEN <<Head(children)>> ELSE <<>>)
         \o NodesNamed(Head(children).children, name)
         \o NodesNamed(Tail(children), name)

\* C13: parsing and converting an abbreviation in which the element `b` is
\* followed by `*N` yields exactly N nodes `b`, equal to each other except
\* for repeat.value, which runs from 0 to N - 1.
C13_RepeatYieldsNCopies ==
    Returned("parseAbbreviation") /\ ~call.ret.err =>
        LET copies == NodesNamed(call.ret.children, <<"b">>)
        IN  /\ Len(copies) = parseInt(call.count, 10)
            /\ \A k \in 1..Len(copies) :
                   /\ copies[k].repeat.value = k - 1
                   /\ [copies[k] EXCEPT !.repeat.value = 0] = [copies[1] EXCEPT !.repeat.value = 0]

\* The names of the nodes and of their descendants.
RECURSIVE NodeNames(_)
NodeNames(children) ==
    IF children = <<>> THEN {}
    ELSE {Head(children).name} \cup NodeNames(Head(children).children)
         \cup NodeNames(Tail(children))

\* C14: resolving the snippets of a markup abbreviation returns without an
\* error for every dictionary, with or without a reference cycle: `stack`
\* never holds more entries than the dictionary has distinct snippets, and
\* every node whose snippet was found in the stack is in the result under
\* its own name.
C14_CycleEndsResolution ==
    Returned("resolveSnippets") =>
        /\ ~call.ret.err
        /\ call.ret.depth <= Cardinality({call.snippets[n] : n \in DOMAIN call.snippets} \ {<<>>})
        /\ call.ret.kept \subseteq NodeNames(call.ret.children)

\* C14 witness: a dictionary in which `a` and `b` name each other was
\* resolved, two snippets deep, and the cycle was found.
C14_Witness ==
    /\ Returned("resolveSnippets")
    /\ call.snippets[<<"a">>] = <<"b">> /\ call.snippets[<<"b">>] = <<"a">>
    /\ call.ret.depth = 2
    /\ call.ret.kept # {}

\* C28: for all strings s1 and s2 and both partial-match modes,
\* scoreMatch(s1, s2) lies in the closed interval [0, 1], and it is 1 only
\* when the lowercased strings are equal.
C28_ScoreWithinUnitInterval ==
    Returned("scoreMatch") =>
        /\ call.ret.n >= 0
        /\ call.ret.n <= call.ret.d
        /\ (IsOne(call.ret) => toLowerCase(call.str1) = toLowerCase(call.str2))

\* The handler list without the first registration of func.
WithoutFirst(list, func) ==
    IF indexOf(list, func) < 0 THEN list
    ELSE SubSeq(list, 1, indexOf(list, func)) \o SubSeq(list, indexOf(list, func) + 2, Len(list))

\* C29: unbind(event, f) removes at most the first registration of f and
\* never any other handler; when f is not registered for the event the
\* handler list is unchanged, and a trigger calls every registered handler
\* in bind order.
C29_UnbindRemovesOnlyThatHandler ==
    /\ Returned("unbind") =>
          (IF call.event \in DOMAIN bus_events THEN bus_events[call.event] ELSE <<>>)
              = WithoutFirst(call.before, call.func)
    /\ Returned("trigger") => call.ret = call.before

\* C22: for every Scanner, sub-range scanners included,
\* 0 <= pos <= end <= string.length holds after construction and after
\* every operation (next, eat, eatWhile, backUp, eatQuoted, eatPair).
C22_ScannerBounds ==
    scanner # None =>
        /\ 0 <= scanner.pos
        /\ scanner.pos <= scanner.end
        /\ scanner.end <= Len(scanner.string)

C27_TrackerMirrorsText ==
    (/\ ev.op \in {"change", "cursor"}
     /\ trackers[ev.e].type # "none")
    => /\ trackers[ev.e].abbreviation
            = Slice(text[ev.e], trackers[ev.e].range[1] + trackers[ev.e].offset,
                    trackers[ev.e].range[2])
       /\ trackers[ev.e].lastLength = Len(text[ev.e])

\* C30: a call of the markup or of the stylesheet tokenizer ends, by
\* returning or by throwing: no iteration of its loop leaves the scanner
\* where it was, so there are at most as many tokens as characters; the
\* first token starts at 0, each token is non-empty and starts where the one
\* before it ended, and the tokens returned reach the end of the input.
C30_TokenizersTerminate ==
    (call.fn \in {"tokenize", "tokenize$1"} /\ call.done)
    => /\ ~call.ret.hangs
       /\ Len(call.ret.tokens) <= Len(call.source)
       /\ \A i \in 1..Len(call.ret.tokens) :
             /\ call.ret.tokens[i].start = (IF i = 1 THEN 0 ELSE call.ret.tokens[i - 1].end)
             /\ call.ret.tokens[i].end > call.ret.tokens[i].start
       /\ (~call.ret.err /\ call.ret.tokens # <<>>)
             => call.ret.tokens[Len(call.ret.tokens)].end = Len(call.source)

\* Both tokenizers have returned several tokens for a source with a field,
\* and the stylesheet tokenizer has merged tokens before a bracket.
C30_Witness ==
    /\ call.done
    /\ ~call.ret.err
    /\ Len(call.ret.tokens) >= 2
    /\ \/ call.fn = "tokenize" /\ \E i \in 1..Len(call.ret.tokens) :
                                      call.ret.tokens[i].type = "RepeaterNumber"
       \/ call.fn = "tokenize$1" /\ call.ret.tokens[Len(call.ret.tokens)].type = "Bracket"

\* The statement sequence node i belongs to: the group whose statements
\* made it (0: the outermost one).
SequenceOf(nodes, i) == nodes[i].root

\* Nesting depth of node i in its sequence: the number of nodes between it
\* and the group of the sequence, 0 at the top level.
DepthIn(nodes, i) ==
    LET RECURSIVE up(_)
        up(ctx) == IF ctx = nodes[i].root \/ ctx = 0 THEN 0 ELSE 1 + up(nodes[ctx].parent)
    IN  up(nodes[i].parent)

\* Node n starts right after a run of k >= 1 climb operators that follows
\* the last token of node m.
ClimbsBetween(ret, m, n, k) ==
    /\ k >= 1
    /\ ret.nodes[n].first = ret.nodes[m].last + k + 1
    /\ \A t \in (ret.nodes[m].last + 1)..(ret.nodes[n].first - 1) :
          ret.tokens[t].type = "Operator" /\ ret.tokens[t].operator = "climb"

\* C24: the abbreviation is parsed without an error, and an element or
\* group written after a run of k climb operators that follows a node at
\* depth d of a statement sequence is in the same sequence at depth
\* max(0, d - k).
C24_ClimbStopsAtTopOfSequence ==
    (call.fn = "abbreviation" /\ call.done)
    => /\ ~call.ret.err
       /\ \A m \in 1..Len(call.ret.nodes), n \in 1..Len(call.ret.nodes), k \in 1..MaxClimbs :
             ClimbsBetween(call.ret, m, n, k)
             => /\ SequenceOf(call.ret.nodes, n) = SequenceOf(call.ret.nodes, m)
                /\ DepthIn(call.ret.nodes, n) = Max(0, DepthIn(call.ret.nodes, m) - k)

\* Inside a group, more climbs than levels follow an element at depth 1.
C24_Witness ==
    /\ call.fn = "abbreviation"
    /\ call.done
    /\ \E m \in 1..Len(call.ret.nodes), n \in 1..Len(call.ret.nodes), k \in 2..MaxClimbs :
          /\ ClimbsBetween(call.ret, m, n, k)
          /\ SequenceOf(call.ret.nodes, m) # 0
          /\ DepthIn(call.ret.nodes, m) = 1

\* C21: with the default options, expanding `ul>li.item$*2` returns a
\* `<ul>` line, the two tab-indented lines `<li class="item1"></li>` and
\* `<li class="item2"></li>`, then `</ul>`, joined by single newlines.
C21_NumberedListItems ==
    (/\ call.fn = "expandAbbreviation"
     /\ call.done
     /\ call.abbr = <<"u", "l", ">", "l", "i", ".", "i", "t", "e", "m", "$", "*", "2">>)
    => /\ ~call.ret.err
       /\ call.ret.out =
             <<"<", "u", "l", ">", "\n", "\t", "<", "l", "i", " ", "c", "l", "a", "s", "s", "=",
              "\"", "i", "t", "e", "m", "1", "\"", ">", "<", "/", "l", "i", ">", "\n", "\t", "<",
              "l", "i", " ", "c", "l", "a", "s", "s", "=", "\"", "i", "t", "e", "m", "2", "\"",
              ">", "<", "/", "l", "i", ">", "\n", "<", "/", "u", "l", ">">>

\* `ul>li.item$*2` has been expanded.
C21_Witness ==
    /\ call.fn = "expandAbbreviation"
    /\ call.done
    /\ call.abbr = <<"u", "l", ">", "l", "i", ".", "i", "t", "e", "m", "$", "*", "2">>

\* C23: after the Tab expand command committed the active Abbreviation
\* tracker, the cache of the editor holds that tracker, with its
\* abbreviation and the range it had before the expansion; and once the
\* change event of an undo that follows the expansion and puts the
\* abbreviation back at the start of that range has been handled, a tracker
\* with that abbreviation and range is the active one.  Both hold whether
\* the events of the expansion were delivered during the replacement or
\* after the command.
C23_CacheHoldsCommittedTracker ==
    /\ ev.op = "tab"
       => /\ cache[ev.e].type = "abbreviation"
          /\ cache[ev.e].abbreviation = ev.pre.abbreviation
          /\ cache[ev.e].range = ev.pre.range
    /\ (ev.op = "change" /\ ev.edit = "undo" /\ ev.prev = "undoes expansion")
       => /\ trackers[ev.e].type = "abbreviation"
          /\ trackers[ev.e].abbreviation = Slice(text[ev.e], ev.at, ev.at + ev.k)
          /\ trackers[ev.e].range = <<ev.at, ev.at + ev.k>>

\* C26: after the Tab expand command, and after each event of its
\* replacement is handled, the editor holds the text from before the command
\* with the tracked range replaced by the whole snippet, and once no event
\* is pending no tracker is active; forced trackers and snippets of several
\* lines included.
C26_ExpansionReplacesExactlyTheRange ==
    ev.edit = "tab"
    => /\ history[ev.e].type = "expansion"
       /\ text[ev.e] = Expanded(history[ev.e])
       /\ queue = <<>> => trackers[ev.e].type = "none"
====
